---- MODULE Spec2Model ----
(***************************************************************************)
(* A model of the markdown-backed plan engine of utils/plans.py: the state *)
(* coercer, the document codec, the plan store and the plan operations     *)
(* create_plan, update_plan, set_subgoals, track_progress and              *)
(* reflect_on_plan, acting on one plan document of the workspace.          *)
(*                                                                         *)
(* A Python str is a sequence of tokens, each a single blank " " or a run   *)
(* of non-blank characters, so that str.strip() and the de-duplication of  *)
(* _normalize_text_items are computed.  A value that Python types          *)
(* dynamically (what json.loads returns, percent_complete) is a tagged     *)
(* record: [t |-> "null"], [t |-> "int", n |-> 5], ...                     *)
(***************************************************************************)
EXTENDS Integers, Sequences, FiniteSets, TLC

VARIABLES fs, now, call, result, io, mem

vars == <<fs, now, call, result, io, mem>>

(***************************************************************************)
(* Bounds of the model.                                                    *)
(***************************************************************************)
MaxClock == 1

MaxLog == 2

MaxRefl == 1

MaxWide == 8

\* the parts of a task handed to decompose_task
MaxParts == 3

\* raw entries in a list given to _coerce_item_list
MaxItems == 3

\* steps of a plan whose steps are completed one by one
MaxSteps == 3

(***************************************************************************)
(* Text.                                                                   *)
(***************************************************************************)
SP == " "

SpaceChars == {" ", "\n", "\t"}

IsSpace(c) == c \in SpaceChars

RECURSIVE LStripOf(_, _)
LStripOf(s, drop) == IF s # <<>> /\ Head(s) \in drop THEN LStripOf(Tail(s), drop) ELSE s

RECURSIVE RStripOf(_, _)
RStripOf(s, drop) ==
  IF s # <<>> /\ s[Len(s)] \in drop THEN RStripOf(SubSeq(s, 1, Len(s) - 1), drop) ELSE s

LStrip(s) == LStripOf(s, SpaceChars)

RStrip(s) == RStripOf(s, SpaceChars)

Strip(s) == RStrip(LStrip(s))

Digit == <<"0", "1", "2", "3", "4", "5", "6", "7", "8", "9">>

RECURSIVE NatText(_)
NatText(n) ==
  IF n < 10 THEN <<Digit[n + 1]>> ELSE NatText(n \div 10) \o <<Digit[(n % 10) + 1]>>

\* str(n) of an integer
IntText(n) == IF n < 0 THEN <<"-">> \o NatText(0 - n) ELSE NatText(n)

InSeq(x, s) == \E i \in 1..Len(s) : s[i] = x

Range(s) == {s[i] : i \in 1..Len(s)}

(***************************************************************************)
(* Dynamically typed values: what json.loads yields and json.dumps takes.  *)
(***************************************************************************)
JNull == [t |-> "null"]

JBool(b) == [t |-> "bool", b |-> b]

JInt(n) == [t |-> "int", n |-> n]

JStr(s) == [t |-> "str", s |-> s]

JList(l) == [t |-> "list", l |-> l]

JObj(o) == [t |-> "obj", o |-> o]

\* dict.get(key, default) on a decoded JSON object
Get(obj, key, default) == IF key \in DOMAIN obj.o THEN obj.o[key] ELSE default

\* isinstance(v, int): bool is a subclass of int
IsInt(v) == v.t \in {"int", "bool"}

\* the number an int (or bool) compares as
IntOf(v) == IF v.t = "bool" THEN (IF v.b THEN 1 ELSE 0) ELSE v.n

\* bool(v): Python truthiness
Truthy(v) ==
  CASE v.t = "null" -> FALSE
    [] v.t = "bool" -> v.b
    [] v.t = "int" -> v.n # 0
    [] v.t = "str" -> v.s # <<>>
    [] v.t = "list" -> v.l # <<>>
    [] v.t = "obj" -> DOMAIN v.o # {}

\* str(v).  The repr of a non-empty list or dict is abridged to its brackets
\* around an ellipsis: non-empty, without outer blanks, and no keyword.
PyStr(v) ==
  CASE v.t = "null" -> <<"None">>
    [] v.t = "bool" -> IF v.b THEN <<"True">> ELSE <<"False">>
    [] v.t = "int" -> IntText(v.n)
    [] v.t = "str" -> v.s
    [] v.t = "list" -> IF v.l = <<>> THEN <<"[", "]">> ELSE <<"[", "~", "]">>
    [] v.t = "obj" -> IF DOMAIN v.o = {} THEN <<"{", "}">> ELSE <<"{", "~", "}">>

(***************************************************************************)
(* Outcomes of a helper that may raise.                                    *)
(***************************************************************************)
Ok(v) == [exc |-> "none", val |-> v]

Raise(e) == [exc |-> e]

Raised(r) == r.exc # "none"

(***************************************************************************)
(* Constants of utils/plans.py.                                            *)
(***************************************************************************)
PENDING == <<"pending">>

IN_PROGRESS == <<"in_progress">>

COMPLETED == <<"completed">>

BLOCKED == <<"blocked">>

ACTIVE == <<"active">>

VALID_STATUSES == {PENDING, IN_PROGRESS, COMPLETED, BLOCKED}

\* the readings of the clock, as ISO timestamps
IsoStamps == <<"t0", "t1", "t2", "t3", "t4", "t5", "t6", "t7", "t8", "t9">>

_now_utc_iso(t) == <<IsoStamps[t + 1]>>

(***************************************************************************)
(* _normalize_text_items: values is None, a list, or (from a decoded       *)
(* document) any JSON value.  A falsy value gives [], a number or a bool   *)
(* is not iterable, a str iterates its characters, a dict its keys.        *)
(***************************************************************************)
RECURSIVE SetToSeq(_)
SetToSeq(S) ==
  IF S = {} THEN <<>> ELSE LET x == CHOOSE y \in S : TRUE IN <<x>> \o SetToSeq(S \ {x})

Iterate(values) ==
  CASE values.t = "list" -> values.l
    [] values.t = "str" -> [i \in 1..Len(values.s) |-> JStr(<<values.s[i]>>)]
    [] values.t = "obj" ->
         LET keys == SetToSeq(DOMAIN values.o)
         IN [i \in 1..Len(keys) |-> JStr(<<keys[i]>>)]

RECURSIVE NormalizeFrom(_, _)
NormalizeFrom(raws, acc) ==
  IF raws = <<>>
  THEN acc
  ELSE LET text == Strip(PyStr(Head(raws)))
       IN NormalizeFrom(Tail(raws),
                        IF text = <<>> \/ InSeq(text, acc) THEN acc ELSE Append(acc, text))

_normalize_text_items(values) ==
  IF ~Truthy(values)
  THEN Ok(<<>>)
  ELSE IF values.t \in {"int", "bool"}
       THEN Raise("TypeError")
       ELSE Ok(NormalizeFrom(Iterate(values), <<>>))

\* a list[str] argument, or None, as the value _normalize_text_items receives
TextList(items) == JList([i \in 1..Len(items) |-> JStr(items[i])])

NormalizeArg(items) == _normalize_text_items(TextList(items)).val

(***************************************************************************)
(* Checklist items.                                                        *)
(***************************************************************************)
Item(id, description, status) ==
  [id |-> id, description |-> description, status |-> status]

\* enumerate(items) without start=1
BuildPlanItemsFromZero(items, default_status) ==
  [idx \in 1..Len(items) |-> Item(idx - 1, items[idx], default_status)]

_build_plan_items(items, default_status) ==
  [idx \in 1..Len(items) |-> Item(idx, items[idx], default_status)]

\* lines 85-97 without the test of the status
CoercedItemAnyStatus(description, status) ==
  IF description = <<>>
  THEN <<>>
  ELSE <<[description |-> description, status |-> status]>>

\* lines 85-97: one entry of the list, or nothing when its description is empty
CoercedItem(description, status) ==
  IF description = <<>>
  THEN <<>>
  ELSE <<[description |-> description,
          status |-> IF status \in VALID_STATUSES THEN status ELSE PENDING]>>

RECURSIVE CoerceItems(_)
CoerceItems(raws) ==
  IF raws = <<>>
  THEN <<>>
  ELSE (IF Head(raws).t = "obj"
        THEN CoercedItem(Strip(PyStr(Get(Head(raws), "description", JStr(<<>>)))),
                         Strip(PyStr(Get(Head(raws), "status", JStr(PENDING)))))
        ELSE CoercedItem(Strip(PyStr(Head(raws))), PENDING))
         \o CoerceItems(Tail(raws))

\* enumerate(items) without start=1
NumberedFromZero(items) ==
  [idx \in 1..Len(items) |-> Item(idx - 1, items[idx].description, items[idx].status)]

Numbered(items) ==
  [idx \in 1..Len(items) |-> Item(idx, items[idx].description, items[idx].status)]

_coerce_item_list(raw_items) ==
  IF raw_items.t # "list" THEN <<>> ELSE Numbered(CoerceItems(raw_items.l))

(***************************************************************************)
(* Progress entries and reflections.                                       *)
(***************************************************************************)
\* text or default
OrElse(text, default) == IF text # <<>> THEN text ELSE default

Progress(timestamp, message, percent) ==
  [timestamp |-> timestamp, message |-> message, percent_complete |-> percent]

Reflection(timestamp, summary, risks, next_actions) ==
  [timestamp |-> timestamp, summary |-> summary, risks |-> risks,
   next_actions |-> next_actions]

\* lines 114-127: one entry of the log, or nothing when its message is empty
CoercedProgress(timestamp, message, percent) ==
  IF message = <<>>
  THEN <<>>
  ELSE <<Progress(timestamp, message, IF IsInt(percent) THEN percent ELSE JNull)>>

RECURSIVE CoerceProgress(_, _)
CoerceProgress(raws, t) ==
  IF raws = <<>>
  THEN <<>>
  ELSE IF Head(raws).t # "obj"
  THEN CoerceProgress(Tail(raws), t)
  ELSE CoercedProgress(OrElse(Strip(PyStr(Get(Head(raws), "timestamp", JStr(<<>>)))),
                              _now_utc_iso(t)),
                       Strip(PyStr(Get(Head(raws), "message", JStr(<<>>)))),
                       Get(Head(raws), "percent_complete", JNull))
         \o CoerceProgress(Tail(raws), t)

_coerce_progress(raw_progress, t) ==
  IF raw_progress.t # "list" THEN <<>> ELSE CoerceProgress(raw_progress.l, t)

\* lines 144-153: an entry with a summary; risks or next_actions that cannot
\* be iterated raise out of the loop
CoercedReflection(timestamp, summary, risks, next_actions, rest) ==
  IF Raised(risks)
  THEN risks
  ELSE IF Raised(next_actions)
  THEN next_actions
  ELSE IF Raised(rest)
  THEN rest
  ELSE Ok(<<Reflection(timestamp, summary, risks.val, next_actions.val)>> \o rest.val)

RECURSIVE CoerceReflections(_, _)
CoerceReflections(raws, t) ==
  IF raws = <<>>
  THEN Ok(<<>>)
  ELSE IF Head(raws).t # "obj"
  THEN CoerceReflections(Tail(raws), t)
  ELSE IF Strip(PyStr(Get(Head(raws), "summary", JStr(<<>>)))) = <<>>
  THEN CoerceReflections(Tail(raws), t)
  ELSE CoercedReflection(
         OrElse(Strip(PyStr(Get(Head(raws), "timestamp", JStr(<<>>)))), _now_utc_iso(t)),
         Strip(PyStr(Get(Head(raws), "summary", JStr(<<>>)))),
         _normalize_text_items(Get(Head(raws), "risks", JNull)),
         _normalize_text_items(Get(Head(raws), "next_actions", JNull)),
         CoerceReflections(Tail(raws), t))

_coerce_reflections(raw_reflections, t) ==
  IF raw_reflections.t # "list" THEN Ok(<<>>) ELSE CoerceReflections(raw_reflections.l, t)

(***************************************************************************)
(* _coerce_state: a decoded JSON object to a plan state.  t is the reading *)
(* of the clock that blank timestamps take.                                *)
(***************************************************************************)
\* lines 165-169
CoercePercent(percent_complete) ==
  IF ~IsInt(percent_complete)
  THEN JNull
  ELSE IF IntOf(percent_complete) < 0 \/ IntOf(percent_complete) > 100
  THEN JNull
  ELSE percent_complete

\* lines 161-163
CoerceStatus(status) == IF status \in {ACTIVE, COMPLETED} THEN status ELSE ACTIVE

\* lines 171-181
CoercedState(raw_state, t, created_at, reflections) ==
  IF Raised(reflections)
  THEN reflections
  ELSE Ok([task |-> Strip(PyStr(Get(raw_state, "task", JStr(<<>>)))),
           status |->
             CoerceStatus(OrElse(Strip(PyStr(Get(raw_state, "status", JStr(ACTIVE)))),
                                 ACTIVE)),
           created_at |-> created_at,
           updated_at |->
             OrElse(Strip(PyStr(Get(raw_state, "updated_at", JStr(<<>>)))), created_at),
           percent_complete |-> CoercePercent(Get(raw_state, "percent_complete", JNull)),
           steps |-> _coerce_item_list(Get(raw_state, "steps", JNull)),
           subgoals |-> _coerce_item_list(Get(raw_state, "subgoals", JNull)),
           progress_log |-> _coerce_progress(Get(raw_state, "progress_log", JNull), t),
           reflections |-> reflections.val])

_coerce_state(raw_state, t) ==
  CoercedState(raw_state, t,
               OrElse(Strip(PyStr(Get(raw_state, "created_at", JStr(<<>>)))),
                      _now_utc_iso(t)),
               _coerce_reflections(Get(raw_state, "reflections", JNull), t))

(***************************************************************************)
(* The document codec.  A document is its encoding, its prose view and the *)
(* text between the sentinel markers: a JSON value when that text decodes, *)
(* [t |-> "invalid"] when it does not, [t |-> "missing"] when the markers  *)
(* or the fenced block are absent.                                         *)
(***************************************************************************)
JItem(item) ==
  JObj([id |-> JInt(item.id), description |-> JStr(item.description),
        status |-> JStr(item.status)])

JItems(items) == JList([i \in 1..Len(items) |-> JItem(items[i])])

JProgress(entry) ==
  JObj([timestamp |-> JStr(entry.timestamp), message |-> JStr(entry.message),
        percent_complete |-> entry.percent_complete])

JReflection(r) ==
  JObj([timestamp |-> JStr(r.timestamp), summary |-> JStr(r.summary),
        risks |-> TextList(r.risks), next_actions |-> TextList(r.next_actions)])

\* json.loads(json.dumps(state, indent=2, sort_keys=True))
JsonOfState(state) ==
  JObj([task |-> JStr(state.task),
        status |-> JStr(state.status),
        created_at |-> JStr(state.created_at),
        updated_at |-> JStr(state.updated_at),
        percent_complete |-> state.percent_complete,
        steps |-> JItems(state.steps),
        subgoals |-> JItems(state.subgoals),
        progress_log |->
          JList([i \in 1..Len(state.progress_log) |-> JProgress(state.progress_log[i])]),
        reflections |->
          JList([i \in 1..Len(state.reflections) |-> JReflection(state.reflections[i])])])

NONE_LINE == <<<<"-", SP, "(none)">>>>

_format_items(items) ==
  IF items = <<>>
  THEN NONE_LINE
  ELSE [i \in 1..Len(items) |->
          IntText(items[i].id)
            \o <<".", SP, "[", IF items[i].status = COMPLETED THEN "x" ELSE SP, "]", SP, "(">>
            \o items[i].status \o <<")", SP>> \o items[i].description]

_format_progress(entries) ==
  IF entries = <<>>
  THEN NONE_LINE
  ELSE [i \in 1..Len(entries) |->
          LET percent == entries[i].percent_complete
              percent_label == IF IsInt(percent) THEN PyStr(percent) \o <<"%">> ELSE <<"-">>
          IN <<"-", SP>> \o entries[i].timestamp \o <<SP, "|", SP>> \o percent_label
               \o <<SP, "|", SP>> \o entries[i].message]

Bullets(texts) == [i \in 1..Len(texts) |-> <<"-", SP>> \o texts[i]]

RECURSIVE FormatReflectionsFrom(_, _)
FormatReflectionsFrom(reflections, idx) ==
  IF idx > Len(reflections)
  THEN <<>>
  ELSE LET r == reflections[idx]
       IN <<<<"###", SP, "Reflection", SP>> \o IntText(idx) \o <<SP, "(">>
              \o r.timestamp \o <<")">>,
            r.summary>>
            \o (IF r.risks # <<>> THEN <<<<"Risks:">>>> \o Bullets(r.risks) ELSE <<>>)
            \o (IF r.next_actions # <<>>
                THEN <<<<"Next", SP, "Actions:">>>> \o Bullets(r.next_actions)
                ELSE <<>>)
            \o FormatReflectionsFrom(reflections, idx + 1)

_format_reflections(reflections) ==
  IF reflections = <<>> THEN NONE_LINE ELSE FormatReflectionsFrom(reflections, 1)

\* lines 15 and 266-267: the start marker and the fence, one token each
STATE_START == "<!-- PLAN_STATE_JSON_START -->"

\* the three backquotes and "json" that open the fenced block
FENCE == "[fence]json"

\* lines 16 and 269-270: the three backquotes that close it, and the end marker
FENCE_END == "[fence]"

STATE_END == "<!-- PLAN_STATE_JSON_END -->"

PercentLabel(percent) == IF IsInt(percent) THEN PyStr(percent) \o <<"%">> ELSE <<"n/a">>

\* lines 243-264: the lines before the state block
ProseOf(state) ==
  <<<<"# Agent Plan">>, <<"## Summary">>,
    <<"- Task:", SP>> \o state.task,
    <<"- Status:", SP>> \o state.status,
    <<"- Progress:", SP>> \o PercentLabel(state.percent_complete),
    <<"- Created (UTC):", SP>> \o state.created_at,
    <<"- Updated (UTC):", SP>> \o state.updated_at,
    <<"## Steps">>>>
    \o _format_items(state.steps)
    \o <<<<"## Subgoals">>>> \o _format_items(state.subgoals)
    \o <<<<"## Progress Log">>>> \o _format_progress(state.progress_log)
    \o <<<<"## Reflections">>>> \o _format_reflections(state.reflections)
    \o <<<<"---">>>>

\* lines 238-273: nothing follows the end marker
_serialize_markdown(state) ==
  [enc |-> "utf8", prose |-> ProseOf(state), block |-> JsonOfState(state), after |-> <<>>]

\* "\n".join(lines)
RECURSIVE JoinLines(_)
JoinLines(lines) ==
  IF lines = <<>> THEN <<>> ELSE Head(lines) \o <<"\n">> \o JoinLines(Tail(lines))

AfterSpaces(s, token) == LStrip(s) # <<>> /\ Head(LStrip(s)) = token

\* the fence and the opening brace of STATE_PATTERN match at the head of s
OpensBlock(s) == AfterSpaces(s, FENCE) /\ AfterSpaces(Tail(LStrip(s)), "{")

\* STATE_PATTERN.search finds its leftmost match: one that starts at a
\* STATE_START in the text before the state block
MatchesEarly(text) ==
  \E i \in 1..Len(text) :
    text[i] = STATE_START /\ OpensBlock(SubSeq(text, i + 1, Len(text)))

\* the closing fence and the end marker of STATE_PATTERN match at the head of s
ClosesBlock(s) == AfterSpaces(s, FENCE_END) /\ AfterSpaces(Tail(LStrip(s)), STATE_END)

\* the group of STATE_PATTERN is greedy: the match ends at the last closing
\* brace, fence and STATE_END of the text, one after the state block if any
MatchesLate(text) ==
  \E i \in 1..Len(text) :
    text[i] = "}" /\ ClosesBlock(SubSeq(text, i + 1, Len(text)))

\* _load_state_from_markdown starting afresh where it should raise
LoadOrStartAfresh(content, t) ==
  IF content.block.t = "obj"
  THEN _coerce_state(content.block, t)
  ELSE _coerce_state(JObj(<<>>), t)

\* lines 278-289.  STATE_PATTERN wants braces around the block, so that a
\* block that is no object does not match; a match that starts before the
\* state block, or ends after it, takes more than the block and does not
\* decode.
\* ValueError is what _read_existing_state catches; anything else escapes it
_load_state_from_markdown(content, t) ==
  IF content.block.t \notin {"obj", "invalid"}
  THEN [exc |-> "ValueError", text |-> "Plan file is missing embedded JSON state markers"]
  ELSE IF \/ content.block.t = "invalid"
          \/ MatchesEarly(JoinLines(content.prose))
          \/ MatchesLate(content.after)
  THEN [exc |-> "ValueError", text |-> "Plan file contains invalid JSON state"]
  ELSE _coerce_state(content.block, t)

(***************************************************************************)
(* Paths.  A path is its sequence of components; WORKSPACE_ROOT is /ws.    *)
(***************************************************************************)
WORKSPACE_ROOT == <<"/", "ws">>

DEFAULT_PLAN_FILE == <<"agent_plan.md">>

RECURSIVE ResolveFrom(_, _)
ResolveFrom(parts, acc) ==
  IF parts = <<>>
  THEN acc
  ELSE IF Head(parts) = ".."
  THEN ResolveFrom(Tail(parts), IF Len(acc) > 1 THEN SubSeq(acc, 1, Len(acc) - 1) ELSE acc)
  ELSE IF Head(parts) = "."
  THEN ResolveFrom(Tail(parts), acc)
  ELSE ResolveFrom(Tail(parts), Append(acc, Head(parts)))

IsPrefix(p, q) == Len(p) <= Len(q) /\ SubSeq(q, 1, Len(p)) = p

\* _resolve_workspace_path without the relative_to of lines 32-38
ResolveUncontained(path_value) ==
  IF path_value # <<>> /\ Head(path_value) = "/"
  THEN Ok(ResolveFrom(Tail(path_value), <<"/">>))
  ELSE Ok(ResolveFrom(path_value, WORKSPACE_ROOT))

_resolve_workspace_path(path_value) ==
  LET resolved ==
        IF path_value # <<>> /\ Head(path_value) = "/"
        THEN ResolveFrom(Tail(path_value), <<"/">>)
        ELSE ResolveFrom(path_value, WORKSPACE_ROOT)
  IN IF IsPrefix(WORKSPACE_ROOT, resolved) THEN Ok(resolved) ELSE Raise("ValueError")

_to_workspace_relative(path) == SubSeq(path, Len(WORKSPACE_ROOT) + 1, Len(path))

\* the one path of the workspace whose entry fs tracks
PlanPath == WORKSPACE_ROOT \o DEFAULT_PLAN_FILE

(***************************************************************************)
(* The plan store.  fs is the entry at PlanPath: absent, a directory or a  *)
(* file with its content.  Every other path of the workspace is absent.    *)
(***************************************************************************)
Absent == [kind |-> "absent"]

Dir == [kind |-> "dir"]

File(content) == [kind |-> "file", content |-> content]

EntryAt(f, path) == IF path = PlanPath THEN f ELSE Absent

\* what a write that dies part-way leaves: a file without its end marker
Truncated == [enc |-> "utf8", prose |-> <<>>, block |-> [t |-> "missing"], after |-> <<>>]

Return(msg) == [kind |-> "return", msg |-> msg]

Throw(e) == [kind |-> "raise", exc |-> e]

Err(text) == <<"Error", ":", SP, text>>

\* msg.startswith("Error:")
StartsWithError(msg) == Len(msg) >= 2 /\ msg[1] = "Error" /\ msg[2] = ":"

\* wr: "ok", or the OSError of mkdir/open ("fail_unchanged") or of the write
\* itself ("fail_truncated")
_write_state(f, plan_path, state, wr) ==
  IF wr = "ok" /\ EntryAt(f, plan_path).kind # "dir"
  THEN [msg |-> <<"Saved plan to">> \o _to_workspace_relative(plan_path),
        fs |-> IF plan_path = PlanPath THEN File(_serialize_markdown(state)) ELSE f,
        io |-> <<"mkdir", "write">>]
  ELSE [msg |-> Err("Unable to write plan file"),
        fs |-> IF wr = "fail_truncated" /\ plan_path = PlanPath /\ f.kind # "dir"
               THEN File(Truncated)
               ELSE f,
        io |-> <<"mkdir", "write_failed">>]

NoState == [has |-> FALSE]

Held(state) == [has |-> TRUE, val |-> state]

\* the (path, state, error) triple, with the file-system calls made
Loaded(plan_path, state, error, calls) ==
  [exc |-> "none", path |-> plan_path, state |-> state, error |-> error, io |-> calls]

\* lines 321-325: ValueError becomes the error of the triple, any other
\* exception leaves _read_existing_state
LoadedFrom(plan_path, loaded) ==
  IF loaded.exc = "ValueError"
  THEN Loaded(plan_path, NoState, Err(loaded.text), <<"stat", "read">>)
  ELSE IF Raised(loaded)
  THEN [exc |-> loaded.exc, io |-> <<"stat", "read">>]
  ELSE Loaded(plan_path, Held(loaded.val), <<>>, <<"stat", "read">>)

\* lines 311-325: rd is "ok" or the OSError of read_text; a file that is not
\* UTF-8 makes read_text raise UnicodeDecodeError, which is no OSError
ReadEntry(plan_path, entry, t, rd) ==
  IF entry.kind = "absent"
  THEN Loaded(plan_path, NoState, Err("Plan file not found"), <<"stat">>)
  ELSE IF entry.kind # "file"
  THEN Loaded(plan_path, NoState, Err("is not a file"), <<"stat">>)
  ELSE IF rd # "ok"
  THEN Loaded(plan_path, NoState, Err("Unable to read"), <<"stat", "read_failed">>)
  ELSE IF entry.content.enc # "utf8"
  THEN [exc |-> "UnicodeDecodeError", io |-> <<"stat", "read_failed">>]
  ELSE LoadedFrom(plan_path, _load_state_from_markdown(entry.content, t))

ReadResolved(f, resolved, t, rd) ==
  IF Raised(resolved)
  THEN Loaded(<<>>, NoState, Err("Path is outside workspace root"), <<>>)
  ELSE ReadEntry(resolved.val, EntryAt(f, resolved.val), t, rd)

_read_existing_state(f, plan_file, t, rd) ==
  ReadResolved(f, _resolve_workspace_path(plan_file), t, rd)

(***************************************************************************)
(* Derived fields.                                                         *)
(***************************************************************************)
CountCompleted(items) == Cardinality({i \in 1..Len(items) : items[i].status = COMPLETED})

AllCompleted(items) == \A i \in 1..Len(items) : items[i].status = COMPLETED

\* int(x) in the place of int(round(x))
PyTruncate(num, den) == num \div den

\* int(round(x)) of x = num/den: Python rounds a tie to the even neighbour.
\* (completed / len(steps)) * 100 is computed in floats; it is the exact
\* quotient for every len(steps) < 40.
PyRound(num, den) ==
  LET q == num \div den
      r == num % den
  IN IF 2 * r > den THEN q + 1
     ELSE IF 2 * r < den THEN q
     ELSE IF q % 2 = 0 THEN q ELSE q + 1

_recompute_percent_from_steps(state) ==
  IF state.steps = <<>>
  THEN [state EXCEPT !.percent_complete = JInt(0)]
  ELSE [state EXCEPT !.percent_complete =
          JInt(PyRound(CountCompleted(state.steps) * 100, Len(state.steps)))]

_mark_all_completed(items) ==
  [i \in 1..Len(items) |-> [items[i] EXCEPT !.status = COMPLETED]]

\* _maybe_cleanup_plan_file without the status check of lines 354-355
CleanupWithoutStatusCheck(f, plan_path, cleanup_plan_file, state, ul) ==
  IF ~cleanup_plan_file
  THEN [done |-> FALSE, fs |-> f, io |-> <<>>]
  ELSE IF ul = "ok"
  THEN [done |-> TRUE, fs |-> IF plan_path = PlanPath THEN Absent ELSE f,
        io |-> <<"unlink">>,
        msg |-> <<"Completed plan and removed">> \o _to_workspace_relative(plan_path)]
  ELSE [done |-> TRUE, fs |-> f, io |-> <<"unlink_failed">>,
        msg |-> <<"Warning", ":", SP, "Plan completed but cleanup failed for">>
                  \o _to_workspace_relative(plan_path)]

\* _maybe_cleanup_plan_file reporting a failed unlink as an error
CleanupReportingError(f, plan_path, cleanup_plan_file, state, ul) ==
  IF ~cleanup_plan_file
  THEN [done |-> FALSE, fs |-> f, io |-> <<>>]
  ELSE IF state.status # COMPLETED
  THEN [done |-> TRUE, fs |-> f, io |-> <<>>,
        msg |-> Err("cleanup_plan_file requires a completed plan")]
  ELSE IF ul = "ok"
  THEN [done |-> TRUE, fs |-> IF plan_path = PlanPath THEN Absent ELSE f,
        io |-> <<"unlink">>,
        msg |-> <<"Completed plan and removed">> \o _to_workspace_relative(plan_path)]
  ELSE [done |-> TRUE, fs |-> f, io |-> <<"unlink_failed">>,
        msg |-> Err("Plan completed but cleanup failed")]

\* ul: "ok" or the OSError of unlink
_maybe_cleanup_plan_file(f, plan_path, cleanup_plan_file, state, ul) ==
  IF ~cleanup_plan_file
  THEN [done |-> FALSE, fs |-> f, io |-> <<>>]
  ELSE IF state.status # COMPLETED
  THEN [done |-> TRUE, fs |-> f, io |-> <<>>,
        msg |-> Err("cleanup_plan_file requires a completed plan")]
  ELSE IF ul = "ok"
  THEN [done |-> TRUE, fs |-> IF plan_path = PlanPath THEN Absent ELSE f,
        io |-> <<"unlink">>,
        msg |-> <<"Completed plan and removed">> \o _to_workspace_relative(plan_path)]
  ELSE [done |-> TRUE, fs |-> f, io |-> <<"unlink_failed">>,
        msg |-> <<"Warning", ":", SP, "Plan completed but cleanup failed for">>
                  \o _to_workspace_relative(plan_path)]

(***************************************************************************)
(* decompose_task.  A task is tokenised into blanks, punctuation marks and *)
(* words.                                                                  *)
(***************************************************************************)
RECURSIVE Collapse(_)
Collapse(s) ==
  IF s = <<>>
  THEN <<>>
  ELSE IF IsSpace(Head(s))
  THEN LET rest == Collapse(LStrip(s)) IN IF rest = <<>> THEN <<>> ELSE <<SP>> \o rest
  ELSE <<Head(s)>> \o Collapse(Tail(s))

\* " ".join(task.split()).strip()
NormalizeSpaces(task) == Collapse(LStrip(task))

\* re.split on runs of separator characters
RECURSIVE SplitOn(_, _, _)
SplitOn(s, cur, seps) ==
  IF s = <<>>
  THEN <<cur>>
  ELSE IF Head(s) \in seps
  THEN <<cur>> \o SplitOn(LStripOf(s, seps), <<>>, seps)
  ELSE SplitOn(Tail(s), Append(cur, Head(s)), seps)

SentenceEnds == {";", "\n", "."}

TrimChars == {" ", ",", ":", "-"}

\* re.I over the connective words
Lower(w) ==
  CASE w \in {"then", "Then", "THEN"} -> "then"
    [] w \in {"next", "Next", "NEXT"} -> "next"
    [] w \in {"after", "After", "AFTER"} -> "after"
    [] w \in {"that", "That", "THAT"} -> "that"
    [] OTHER -> w

\* re.split(r"\b(?:then|after that|next)\b", sentence, flags=re.I)
RECURSIVE SplitConnectives(_, _)
SplitConnectives(s, cur) ==
  IF s = <<>>
  THEN <<cur>>
  ELSE IF Lower(Head(s)) \in {"then", "next"}
  THEN <<cur>> \o SplitConnectives(Tail(s), <<>>)
  ELSE IF Len(s) >= 3 /\ Lower(s[1]) = "after" /\ s[2] = SP /\ Lower(s[3]) = "that"
  THEN <<cur>> \o SplitConnectives(SubSeq(s, 4, Len(s)), <<>>)
  ELSE SplitConnectives(Tail(s), Append(cur, Head(s)))

\* part.strip(" ,:-") of every part, the empty ones dropped
NonEmpty(part) == IF part # <<>> THEN <<part>> ELSE <<>>

RECURSIVE CleanedParts(_)
CleanedParts(parts) ==
  IF parts = <<>>
  THEN <<>>
  ELSE NonEmpty(RStripOf(LStripOf(Head(parts), TrimChars), TrimChars))
         \o CleanedParts(Tail(parts))

RECURSIVE SentenceCandidates(_)
SentenceCandidates(sentences) ==
  IF sentences = <<>>
  THEN <<>>
  ELSE CleanedParts(SplitConnectives(Head(sentences), <<>>))
         \o SentenceCandidates(Tail(sentences))

Take(s, n) == SubSeq(s, 1, IF Len(s) < n THEN Len(s) ELSE n)

\* lines 512-522
Decomposed(normalized, unique_candidates, max_steps) ==
  IF Len(unique_candidates) >= 2
  THEN Take(unique_candidates, max_steps)
  ELSE Take(<<<<"Clarify acceptance criteria for", ":", SP>> \o normalized,
              <<"Inspect the relevant code and dependencies">>,
              <<"Implement the required code changes">>,
              <<"Validate behavior with tests and checks">>,
              <<"Summarize results and remaining follow-ups">>>>, max_steps)

\* lines 499-510
Candidates(normalized, first) ==
  IF Len(first) < 2 /\ InSeq(",", normalized)
  THEN first \o CleanedParts(SplitOn(normalized, <<>>, {","}))
  ELSE first

DecomposeNormalized(normalized, max_steps) ==
  IF normalized = <<>>
  THEN <<Err("task must not be empty")>>
  ELSE Decomposed(normalized,
                  NormalizeArg(Candidates(normalized,
                                          SentenceCandidates(SplitOn(normalized, <<>>,
                                                                     SentenceEnds)))),
                  max_steps)

decompose_task(task, max_steps) ==
  IF max_steps <= 0
  THEN <<Err("max_steps must be > 0")>>
  ELSE DecomposeNormalized(NormalizeSpaces(task), max_steps)

(***************************************************************************)
(* The plan operations.  Each is the whole handler: from the entry f at    *)
(* PlanPath, the reading t of the clock, the arguments and the outcome of  *)
(* each file-system call it makes, to its result, the entry it leaves, the *)
(* file-system calls it made and the state it held in memory when it       *)
(* returned.                                                               *)
(***************************************************************************)
Outcome(res, f, calls, held) == [result |-> res, fs |-> f, io |-> calls, mem |-> held]

\* the error of a failed load, or the exception that escaped it
LoadFailure(f, loaded) ==
  IF Raised(loaded)
  THEN Outcome(Throw(loaded.exc), f, loaded.io, NoState)
  ELSE Outcome(Return(loaded.error), f, loaded.io, NoState)

LoadFailed(loaded) == Raised(loaded) \/ loaded.error # <<>>

\* the write result decides: its error, or the success message
Persisted(state, calls, written, success) ==
  IF StartsWithError(written.msg)
  THEN Outcome(Return(written.msg), written.fs, calls \o written.io, Held(state))
  ELSE Outcome(Return(success), written.fs, calls \o written.io, Held(state))

\* lines 412-413
FirstInProgress(steps) ==
  [idx \in 1..Len(steps) |->
     IF idx = 1 THEN [steps[idx] EXCEPT !.status = IN_PROGRESS] ELSE steps[idx]]

\* lines 394-413
NewState(task_text, normalized_steps, created_at) ==
  [task |-> task_text,
   status |-> ACTIVE,
   created_at |-> created_at,
   updated_at |-> created_at,
   percent_complete |-> JInt(0),
   steps |-> FirstInProgress(_build_plan_items(normalized_steps, PENDING)),
   subgoals |-> <<>>,
   progress_log |-> <<Progress(created_at, <<"Plan created">>, JInt(0))>>,
   reflections |-> <<>>]

\* CreateAt without the check of lines 389-390
CreateAtOverwriting(f, t, task_text, normalized_steps, resolved, overwrite, wr) ==
  IF Raised(resolved)
  THEN Outcome(Return(Err("Path is outside workspace root")), f, <<>>, NoState)
  ELSE IF EntryAt(f, resolved.val).kind = "dir"
  THEN Outcome(Return(Err("is a directory")), f, <<"stat">>, NoState)
  ELSE Persisted(NewState(task_text, normalized_steps, _now_utc_iso(t)), <<"stat">>,
                 _write_state(f, resolved.val,
                              NewState(task_text, normalized_steps, _now_utc_iso(t)), wr),
                 <<"Created plan">> \o _to_workspace_relative(resolved.val)
                   \o <<"with">> \o IntText(Len(normalized_steps)) \o <<"step(s)">>)

\* lines 384-422
CreateAt(f, t, task_text, normalized_steps, resolved, overwrite, wr) ==
  IF Raised(resolved)
  THEN Outcome(Return(Err("Path is outside workspace root")), f, <<>>, NoState)
  ELSE IF EntryAt(f, resolved.val).kind # "absent" /\ ~overwrite
  THEN Outcome(Return(Err("Plan file already exists and overwrite is False")),
               f, <<"stat">>, NoState)
  ELSE IF EntryAt(f, resolved.val).kind = "dir"
  THEN Outcome(Return(Err("is a directory")), f, <<"stat">>, NoState)
  ELSE Persisted(NewState(task_text, normalized_steps, _now_utc_iso(t)), <<"stat">>,
                 _write_state(f, resolved.val,
                              NewState(task_text, normalized_steps, _now_utc_iso(t)), wr),
                 <<"Created plan">> \o _to_workspace_relative(resolved.val)
                   \o <<"with">> \o IntText(Len(normalized_steps)) \o <<"step(s)">>)

\* lines 378-382
CreateWith(f, t, task_text, given, plan_file, overwrite, wr) ==
  IF given # <<>>
  THEN CreateAt(f, t, task_text, given, _resolve_workspace_path(plan_file), overwrite, wr)
  ELSE IF StartsWithError(decompose_task(task_text, 6)[1])
  THEN Outcome(Return(decompose_task(task_text, 6)[1]), f, <<>>, NoState)
  ELSE CreateAt(f, t, task_text, decompose_task(task_text, 6),
                _resolve_workspace_path(plan_file), overwrite, wr)

create_plan(f, t, task, steps, plan_file, overwrite, wr) ==
  IF Strip(task) = <<>>
  THEN Outcome(Return(Err("task must not be empty")), f, <<>>, NoState)
  ELSE CreateWith(f, t, Strip(task), NormalizeArg(steps), plan_file, overwrite, wr)

\* SetStepStatus without the demotion of lines 454-457
SetStepStatusKeepingOthers(steps, step_number, status) ==
  [idx \in 1..Len(steps) |->
     IF idx = step_number THEN [steps[idx] EXCEPT !.status = status] ELSE steps[idx]]

\* SetStepStatus without the test of line 454
SetStepStatusDemotingAlways(steps, step_number, status) ==
  [idx \in 1..Len(steps) |->
     IF idx = step_number
     THEN [steps[idx] EXCEPT !.status = status]
     ELSE IF steps[idx].status = IN_PROGRESS
     THEN [steps[idx] EXCEPT !.status = PENDING]
     ELSE steps[idx]]

\* lines 454-460: the status of the target, the other in_progress steps demoted
SetStepStatus(steps, step_number, status) ==
  [idx \in 1..Len(steps) |->
     IF idx = step_number
     THEN [steps[idx] EXCEPT !.status = status]
     ELSE IF status = IN_PROGRESS /\ steps[idx].status = IN_PROGRESS
     THEN [steps[idx] EXCEPT !.status = PENDING]
     ELSE steps[idx]]

\* StatusOfSteps with any() in the place of all()
StatusOfStepsAny(steps) ==
  IF \E i \in 1..Len(steps) : steps[i].status = COMPLETED THEN COMPLETED ELSE ACTIVE

\* lines 472-475 and 618-623
StatusOfSteps(steps) == IF steps # <<>> /\ AllCompleted(steps) THEN COMPLETED ELSE ACTIVE

\* UpdateStep without the recompute of line 478
UpdateStepStalePercent(state, step_number, status, note, t) ==
  [state EXCEPT !.steps = SetStepStatus(state.steps, step_number, status),
                !.progress_log =
                  IF Strip(note) # <<>>
                  THEN Append(state.progress_log,
                              Progress(_now_utc_iso(t), Strip(note), JNull))
                  ELSE state.progress_log,
                !.status = StatusOfSteps(SetStepStatus(state.steps, step_number, status)),
                !.updated_at = _now_utc_iso(t)]

\* lines 454-478: the mutation update_plan applies to a loaded state
\* UpdateStep without the test of line 463
UpdateStepAlwaysLogging(state, step_number, status, note, t) ==
  _recompute_percent_from_steps(
    [state EXCEPT !.steps = SetStepStatus(state.steps, step_number, status),
                  !.progress_log =
                    Append(state.progress_log,
                           Progress(_now_utc_iso(t), Strip(note), JNull)),
                  !.status = StatusOfSteps(SetStepStatus(state.steps, step_number, status)),
                  !.updated_at = _now_utc_iso(t)])

\* UpdateStep without the recompute of the status of lines 472-475
UpdateStepStaleStatus(state, step_number, status, note, t) ==
  _recompute_percent_from_steps(
    [state EXCEPT !.steps = SetStepStatus(state.steps, step_number, status),
                  !.progress_log =
                    IF Strip(note) # <<>>
                    THEN Append(state.progress_log,
                                Progress(_now_utc_iso(t), Strip(note), JNull))
                    ELSE state.progress_log,
                  !.updated_at = _now_utc_iso(t)])

\* UpdateStep that sets the status of the subgoal of that number as well
UpdateStepAndSubgoal(state, step_number, status, note, t) ==
  _recompute_percent_from_steps(
    [state EXCEPT !.steps = SetStepStatus(state.steps, step_number, status),
                  !.subgoals = SetStepStatus(state.subgoals, step_number, status),
                  !.progress_log =
                    IF Strip(note) # <<>>
                    THEN Append(state.progress_log,
                                Progress(_now_utc_iso(t), Strip(note), JNull))
                    ELSE state.progress_log,
                  !.status = StatusOfSteps(SetStepStatus(state.steps, step_number, status)),
                  !.updated_at = _now_utc_iso(t)])

UpdateStep(state, step_number, status, note, t) ==
  _recompute_percent_from_steps(
    [state EXCEPT !.steps = SetStepStatus(state.steps, step_number, status),
                  !.progress_log =
                    IF Strip(note) # <<>>
                    THEN Append(state.progress_log,
                                Progress(_now_utc_iso(t), Strip(note), JNull))
                    ELSE state.progress_log,
                  !.status = StatusOfSteps(SetStepStatus(state.steps, step_number, status)),
                  !.updated_at = _now_utc_iso(t)])

\* lines 480-487
UpdatePersist(f, loaded, state, step_number, status, wr) ==
  Persisted(state, loaded.io, _write_state(f, loaded.path, state, wr),
            <<"Updated step">> \o IntText(step_number) \o <<"to">> \o status \o <<"in">>
              \o _to_workspace_relative(loaded.path))

\* UpdateLoaded without the checks of lines 445-452
UpdateLoadedUnchecked(f, t, loaded, step_number, status, note, wr) ==
  IF LoadFailed(loaded)
  THEN LoadFailure(f, loaded)
  ELSE UpdatePersist(f, loaded, UpdateStep(loaded.state.val, step_number, status, note, t),
                     step_number, status, wr)

\* lines 440-478
UpdateLoaded(f, t, loaded, step_number, status, note, wr) ==
  IF LoadFailed(loaded)
  THEN LoadFailure(f, loaded)
  ELSE IF loaded.state.val.steps = <<>>
  THEN Outcome(Return(Err("Plan has no steps to update")), f, loaded.io, loaded.state)
  ELSE IF step_number > Len(loaded.state.val.steps)
  THEN Outcome(Return(Err("step_number is out of range")), f, loaded.io, loaded.state)
  ELSE UpdatePersist(f, loaded, UpdateStep(loaded.state.val, step_number, status, note, t),
                     step_number, status, wr)

\* update_plan without the checks of lines 432-437
UpdateUnvalidated(f, t, step_number, status, note, plan_file, rd, wr) ==
  UpdateLoaded(f, t, _read_existing_state(f, plan_file, t, rd), step_number, status, note, wr)

update_plan(f, t, step_number, status, note, plan_file, rd, wr) ==
  IF step_number < 1
  THEN Outcome(Return(Err("step_number must be >= 1")), f, <<>>, NoState)
  ELSE IF status \notin VALID_STATUSES
  THEN Outcome(Return(Err("status must be one of: pending, in_progress, completed, blocked")),
               f, <<>>, NoState)
  ELSE UpdateLoaded(f, t, _read_existing_state(f, plan_file, t, rd), step_number, status,
                    note, wr)

\* every description taken for new
StatusAlwaysPending(items, description) == PENDING

\* status_by_description: a dict comprehension, so the last item of a
\* description decides
LastOf(at) == CHOOSE i \in at : \A j \in at : j <= i

StatusByDescription(items, description) ==
  IF \A i \in 1..Len(items) : items[i].description # description
  THEN PENDING
  ELSE IF items[LastOf({i \in 1..Len(items) : items[i].description = description})].status
            \in VALID_STATUSES
  THEN items[LastOf({i \in 1..Len(items) : items[i].description = description})].status
  ELSE PENDING

Descriptions(items) == [i \in 1..Len(items) |-> items[i].description]

\* lines 555-562
MergedSubgoals(current_subgoals, merged) ==
  [idx \in 1..Len(merged) |->
     Item(idx, merged[idx], StatusByDescription(current_subgoals, merged[idx]))]

\* SetSubgoals without line 565's refresh of updated_at
SetSubgoalsStale(state, normalized_subgoals, replace, t) ==
  [state EXCEPT !.subgoals =
                  MergedSubgoals(state.subgoals,
                                 IF replace
                                 THEN normalized_subgoals
                                 ELSE NormalizeArg(Descriptions(state.subgoals)
                                                     \o normalized_subgoals))]

\* SetSubgoals that merges whatever replace is
SetSubgoalsAlwaysMerging(state, normalized_subgoals, replace, t) ==
  [state EXCEPT !.subgoals =
                  MergedSubgoals(state.subgoals,
                                 NormalizeArg(Descriptions(state.subgoals)
                                                \o normalized_subgoals)),
                !.updated_at = _now_utc_iso(t)]

\* SetSubgoals that merges without lines 550-553's _normalize_text_items
SetSubgoalsConcatenating(state, normalized_subgoals, replace, t) ==
  [state EXCEPT !.subgoals =
                  MergedSubgoals(state.subgoals,
                                 IF replace
                                 THEN normalized_subgoals
                                 ELSE Descriptions(state.subgoals) \o normalized_subgoals),
                !.updated_at = _now_utc_iso(t)]

\* SetSubgoals that recomputes the status and the percentage from the steps
SetSubgoalsRecomputing(state, normalized_subgoals, replace, t) ==
  _recompute_percent_from_steps(
    [state EXCEPT !.subgoals =
                    MergedSubgoals(state.subgoals,
                                   IF replace
                                   THEN normalized_subgoals
                                   ELSE NormalizeArg(Descriptions(state.subgoals)
                                                       \o normalized_subgoals)),
                  !.status = StatusOfSteps(state.steps),
                  !.updated_at = _now_utc_iso(t)])

\* lines 541-565: the mutation set_subgoals applies to a loaded state
SetSubgoals(state, normalized_subgoals, replace, t) ==
  [state EXCEPT !.subgoals =
                  MergedSubgoals(state.subgoals,
                                 IF replace
                                 THEN normalized_subgoals
                                 ELSE NormalizeArg(Descriptions(state.subgoals)
                                                     \o normalized_subgoals)),
                !.updated_at = _now_utc_iso(t)]

\* lines 567-575
SubgoalsPersist(f, loaded, state, replace, wr) ==
  Persisted(state, loaded.io, _write_state(f, loaded.path, state, wr),
            <<IF replace THEN "Set" ELSE "Updated">> \o IntText(Len(state.subgoals))
              \o <<"subgoal(s) in">> \o _to_workspace_relative(loaded.path))

SubgoalsLoaded(f, t, loaded, normalized_subgoals, replace, wr) ==
  IF LoadFailed(loaded)
  THEN LoadFailure(f, loaded)
  ELSE SubgoalsPersist(f, loaded,
                       SetSubgoals(loaded.state.val, normalized_subgoals, replace, t),
                       replace, wr)

set_subgoals(f, t, subgoals, plan_file, replace, rd, wr) ==
  IF NormalizeArg(subgoals) = <<>>
  THEN Outcome(Return(Err("subgoals must include at least one non-empty item")),
               f, <<>>, NoState)
  ELSE SubgoalsLoaded(f, t, _read_existing_state(f, plan_file, t, rd),
                      NormalizeArg(subgoals), replace, wr)

\* the force-complete branch without line 614
ForceCompleteStepsOnly(state) ==
  [state EXCEPT !.steps = _mark_all_completed(state.steps),
                !.status = COMPLETED,
                !.percent_complete = JInt(100)]

\* the force-complete branch without lines 612-613
ForceCompleteStatusOnly(state) ==
  [state EXCEPT !.status = COMPLETED,
                !.percent_complete = JInt(100)]

\* lines 612-616 and 675-679: the force-complete branch
ForceComplete(state) ==
  [state EXCEPT !.steps = _mark_all_completed(state.steps),
                !.subgoals = _mark_all_completed(state.subgoals),
                !.status = COMPLETED,
                !.percent_complete = JInt(100)]

\* Settle that recomputes the percentage whether one was given or not
SettleRecomputing(state, percent_complete, complete_plan) ==
  IF complete_plan \/ percent_complete = JInt(100)
  THEN ForceComplete(state)
  ELSE _recompute_percent_from_steps([state EXCEPT !.status = StatusOfSteps(state.steps)])

\* lines 609-625, on the state with its new progress entry
Settle(state, percent_complete, complete_plan) ==
  IF complete_plan \/ percent_complete = JInt(100)
  THEN ForceComplete(state)
  ELSE IF percent_complete = JNull
  THEN _recompute_percent_from_steps([state EXCEPT !.status = StatusOfSteps(state.steps)])
  ELSE [state EXCEPT !.status = StatusOfSteps(state.steps),
                     !.percent_complete = percent_complete]

\* TrackProgress that starts the log afresh with its entry
TrackProgressOverwriting(state, note, percent_complete, complete_plan, t) ==
  [Settle([state EXCEPT !.progress_log =
                          <<Progress(_now_utc_iso(t), note, percent_complete)>>],
          percent_complete, complete_plan)
     EXCEPT !.updated_at = _now_utc_iso(t)]

\* lines 600-627: the mutation track_progress applies to a loaded state;
\* percent_complete is JNull (None) or JInt(n)
TrackProgress(state, note, percent_complete, complete_plan, t) ==
  [Settle([state EXCEPT !.progress_log =
                          Append(state.progress_log,
                                 Progress(_now_utc_iso(t), note, percent_complete))],
          percent_complete, complete_plan)
     EXCEPT !.updated_at = _now_utc_iso(t)]

\* lines 633-644 and 689-700: after the write, clean up when asked, report
Cleaned(state, calls, cleanup, success) ==
  IF cleanup.done
  THEN Outcome(Return(cleanup.msg), cleanup.fs, calls \o cleanup.io, Held(state))
  ELSE Outcome(Return(success), cleanup.fs, calls, Held(state))

\* Written without the test of lines 630-631
WrittenCleaningAnyway(loaded, state, cleanup_plan_file, ul, written, success) ==
  Cleaned(state, loaded.io \o written.io,
          _maybe_cleanup_plan_file(written.fs, loaded.path, cleanup_plan_file, state, ul),
          success)

Written(loaded, state, cleanup_plan_file, ul, written, success) ==
  IF StartsWithError(written.msg)
  THEN Outcome(Return(written.msg), written.fs, loaded.io \o written.io, Held(state))
  ELSE Cleaned(state, loaded.io \o written.io,
               _maybe_cleanup_plan_file(written.fs, loaded.path, cleanup_plan_file,
                                        state, ul),
               success)

\* the test of lines 352-355 made before the write of line 629
CleanupCheckedFirst(f, loaded, state, cleanup_plan_file, wr, ul, success) ==
  IF cleanup_plan_file /\ state.status # COMPLETED
  THEN Outcome(Return(Err("cleanup_plan_file requires a completed plan")), f, loaded.io,
               Held(state))
  ELSE Written(loaded, state, cleanup_plan_file, ul,
               _write_state(f, loaded.path, state, wr), success)

\* lines 629-644 and 685-700: persist, clean up when asked, report
PersistAndCleanup(f, loaded, state, cleanup_plan_file, wr, ul, success) ==
  Written(loaded, state, cleanup_plan_file, ul,
          _write_state(f, loaded.path, state, wr), success)

TrackPersist(f, loaded, state, cleanup_plan_file, wr, ul) ==
  PersistAndCleanup(f, loaded, state, cleanup_plan_file, wr, ul,
                    <<"Logged progress in">> \o _to_workspace_relative(loaded.path)
                      \o <<"(status=">> \o state.status \o <<"progress=">>
                      \o PyStr(state.percent_complete) \o <<"%)">>)

TrackLoaded(f, t, loaded, note, percent_complete, complete_plan, cleanup_plan_file, wr, ul) ==
  IF LoadFailed(loaded)
  THEN LoadFailure(f, loaded)
  ELSE TrackPersist(f, loaded,
                    TrackProgress(loaded.state.val, note, percent_complete,
                                  complete_plan, t),
                    cleanup_plan_file, wr, ul)

track_progress(f, t, message, percent_complete, plan_file, complete_plan, cleanup_plan_file, rd, wr, ul) ==
  IF Strip(message) = <<>>
  THEN Outcome(Return(Err("message must not be empty")), f, <<>>, NoState)
  ELSE IF percent_complete # JNull /\ (percent_complete.n < 0 \/ percent_complete.n > 100)
  THEN Outcome(Return(Err("percent_complete must be between 0 and 100")), f, <<>>, NoState)
  ELSE TrackLoaded(f, t, _read_existing_state(f, plan_file, t, rd), Strip(message),
                   percent_complete, complete_plan, cleanup_plan_file, wr, ul)

\* lines 666-683: the mutation reflect_on_plan applies to a loaded state
\* Reflect without the recomputation of lines 680-681
ReflectKeepingPercent(state, summary_text, risks, next_actions, finalize, t) ==
  [(IF finalize
    THEN ForceComplete([state EXCEPT !.reflections =
                          Append(state.reflections,
                                 Reflection(_now_utc_iso(t), summary_text,
                                            NormalizeArg(risks),
                                            NormalizeArg(next_actions)))])
    ELSE [state EXCEPT !.reflections =
            Append(state.reflections,
                   Reflection(_now_utc_iso(t), summary_text, NormalizeArg(risks),
                              NormalizeArg(next_actions)))])
     EXCEPT !.updated_at = _now_utc_iso(t)]

Reflect(state, summary_text, risks, next_actions, finalize, t) ==
  [(IF finalize
    THEN ForceComplete([state EXCEPT !.reflections =
                          Append(state.reflections,
                                 Reflection(_now_utc_iso(t), summary_text,
                                            NormalizeArg(risks),
                                            NormalizeArg(next_actions)))])
    ELSE _recompute_percent_from_steps(
           [state EXCEPT !.reflections =
              Append(state.reflections,
                     Reflection(_now_utc_iso(t), summary_text, NormalizeArg(risks),
                                NormalizeArg(next_actions)))]))
     EXCEPT !.updated_at = _now_utc_iso(t)]

ReflectPersist(f, loaded, state, cleanup_plan_file, wr, ul) ==
  PersistAndCleanup(f, loaded, state, cleanup_plan_file, wr, ul,
                    <<"Recorded reflection in">> \o _to_workspace_relative(loaded.path)
                      \o <<"(total reflections=">> \o IntText(Len(state.reflections))
                      \o <<")">>)

ReflectLoaded(f, t, loaded, summary_text, risks, next_actions, finalize, cleanup_plan_file, wr, ul) ==
  IF LoadFailed(loaded)
  THEN LoadFailure(f, loaded)
  ELSE ReflectPersist(f, loaded,
                      Reflect(loaded.state.val, summary_text, risks, next_actions,
                              finalize, t),
                      cleanup_plan_file, wr, ul)

reflect_on_plan(f, t, summary, risks, next_actions, plan_file, finalize, cleanup_plan_file, rd, wr, ul) ==
  IF Strip(summary) = <<>>
  THEN Outcome(Return(Err("summary must not be empty")), f, <<>>, NoState)
  ELSE ReflectLoaded(f, t, _read_existing_state(f, plan_file, t, rd), Strip(summary),
                     risks, next_actions, finalize, cleanup_plan_file, wr, ul)

(***************************************************************************)
(* The state machine.  fs is the entry at PlanPath and now the last        *)
(* reading of the clock.  One caller invokes the operations one at a time: *)
(* call is the invocation that has just ended, with its arguments, result  *)
(* what it returned or raised, io the file-system calls it made and mem    *)
(* the plan state it held in memory when it ended.  The caller takes the   *)
(* result (Proceed) before it invokes the next operation.                  *)
(***************************************************************************)
NoCall == [op |-> "none"]

NoResult == [kind |-> "none"]

\* the clock is read once per invocation and never runs backwards; ticks are
\* the advances it may have made since the invocation before
Ticks(ticks) == {t \in {now + d : d \in ticks} : t <= MaxClock}

\* An invocation ends at the first file-system call that fails, so one fault
\* per invocation covers every combination of failing calls.
Faults == {"none", "read", "write_unchanged", "write_truncated", "unlink"}

\* the faults of the calls an operation makes
WriteFaults == {"none", "write_unchanged", "write_truncated"}

StoreFaults == WriteFaults \cup {"read"}

CleanupFaults(cleanup_plan_file) ==
  IF cleanup_plan_file THEN Faults ELSE StoreFaults

Rd(fault) == IF fault = "read" THEN "fail" ELSE "ok"

Wr(fault) ==
  CASE fault = "write_unchanged" -> "fail_unchanged"
    [] fault = "write_truncated" -> "fail_truncated"
    [] OTHER -> "ok"

Ul(fault) == IF fault = "unlink" THEN "fail" ELSE "ok"

\* the logs are unbounded in the code; the model stops appending at the bounds
Bounded(out) ==
  out.mem.has =>
    /\ Len(out.mem.val.progress_log) <= MaxLog
    /\ Len(out.mem.val.reflections) <= MaxRefl

Apply(out, t) ==
  /\ Bounded(out)
  /\ fs' = out.fs
  /\ result' = out.result
  /\ io' = out.io
  /\ mem' = out.mem
  /\ now' = t

CreatePlan(ticks, task, steps, plan_file, overwrite) ==
  /\ call = NoCall
  /\ \E t \in Ticks(ticks), fault \in WriteFaults :
         /\ call' = [op |-> "create_plan", task |-> task, steps |-> steps,
                     plan_file |-> plan_file, overwrite |-> overwrite]
         /\ Apply(create_plan(fs, t, task, steps, plan_file, overwrite, Wr(fault)), t)

UpdatePlan(ticks, step_number, status, note, plan_file) ==
  /\ call = NoCall
  /\ \E t \in Ticks(ticks), fault \in StoreFaults :
         /\ call' = [op |-> "update_plan", step_number |-> step_number, status |-> status,
                     note |-> note, plan_file |-> plan_file]
         /\ Apply(update_plan(fs, t, step_number, status, note, plan_file,
                              Rd(fault), Wr(fault)), t)

SetSubgoalsCall(ticks, subgoals, plan_file, replace) ==
  /\ call = NoCall
  /\ \E t \in Ticks(ticks), fault \in StoreFaults :
         /\ call' = [op |-> "set_subgoals", subgoals |-> subgoals, plan_file |-> plan_file,
                     replace |-> replace]
         /\ Apply(set_subgoals(fs, t, subgoals, plan_file, replace, Rd(fault), Wr(fault)), t)

TrackProgressCall(ticks, message, percent_complete, plan_file, complete_plan, cleanup_plan_file) ==
  /\ call = NoCall
  /\ \E t \in Ticks(ticks), fault \in CleanupFaults(cleanup_plan_file) :
         /\ call' = [op |-> "track_progress", message |-> message,
                     percent_complete |-> percent_complete, plan_file |-> plan_file,
                     complete_plan |-> complete_plan, cleanup_plan_file |-> cleanup_plan_file]
         /\ Apply(track_progress(fs, t, message, percent_complete, plan_file, complete_plan,
                                 cleanup_plan_file, Rd(fault), Wr(fault), Ul(fault)), t)

ReflectOnPlan(ticks, summary, risks, next_actions, plan_file, finalize, cleanup_plan_file) ==
  /\ call = NoCall
  /\ \E t \in Ticks(ticks), fault \in CleanupFaults(cleanup_plan_file) :
         /\ call' = [op |-> "reflect_on_plan", summary |-> summary, risks |-> risks,
                     next_actions |-> next_actions, plan_file |-> plan_file,
                     finalize |-> finalize, cleanup_plan_file |-> cleanup_plan_file]
         /\ Apply(reflect_on_plan(fs, t, summary, risks, next_actions, plan_file, finalize,
                                  cleanup_plan_file, Rd(fault), Wr(fault), Ul(fault)), t)

(***************************************************************************)
(* The arguments the callers draw from.                                    *)
(***************************************************************************)
Blank == <<SP>>

OUTSIDE == <<"..", "outside.md">>

\* an absolute path that is not under the root
ELSEWHERE == <<"/", "tmp", "agent_plan.md">>

StepA == <<"inspect">>

StepB == <<"build">>

GoalX == <<"quality">>

GoalY == <<"tests">>

\* the second step list holds a blank entry and a repeat of its first entry
MainInputs ==
  [ticks |-> {0},
   tasks |-> {<<"build", SP, "then", SP, "test", SP>>},
   steps |-> {<<>>, <<StepA, Blank, <<SP, "inspect">>>>},
   plan_files |-> {DEFAULT_PLAN_FILE},
   overwrites |-> BOOLEAN,
   step_numbers |-> 1..2,
   statuses |-> VALID_STATUSES,
   notes |-> {Blank, <<"note", SP>>},
   subgoals |-> {<<GoalX, <<"quality", SP>>>>},
   messages |-> {<<SP, "half">>},
   percents |-> {JNull, JInt(50), JInt(100)},
   summaries |-> {<<"stable">>},
   risks |-> {<<<<"coverage">>, <<"coverage">>>>},
   next_actions |-> {<<>>}]

Step(I) ==
  \/ \E task \in I.tasks, steps \in I.steps, plan_file \in I.plan_files,
        overwrite \in I.overwrites :
       CreatePlan(I.ticks, task, steps, plan_file, overwrite)
  \/ \E step_number \in I.step_numbers, status \in I.statuses, note \in I.notes,
        plan_file \in I.plan_files :
       UpdatePlan(I.ticks, step_number, status, note, plan_file)
  \/ \E subgoals \in I.subgoals, plan_file \in I.plan_files, replace \in BOOLEAN :
       SetSubgoalsCall(I.ticks, subgoals, plan_file, replace)
  \/ \E message \in I.messages, percent_complete \in I.percents,
        plan_file \in I.plan_files, complete_plan \in BOOLEAN,
        cleanup_plan_file \in BOOLEAN :
       TrackProgressCall(I.ticks, message, percent_complete, plan_file,
                         complete_plan, cleanup_plan_file)
  \/ \E summary \in I.summaries, risks \in I.risks, next_actions \in I.next_actions,
        plan_file \in I.plan_files, finalize \in BOOLEAN, cleanup_plan_file \in BOOLEAN :
       ReflectOnPlan(I.ticks, summary, risks, next_actions, plan_file, finalize,
                     cleanup_plan_file)

Proceed ==
  /\ call # NoCall
  /\ call' = NoCall
  /\ result' = NoResult
  /\ io' = <<>>
  /\ mem' = NoState
  /\ UNCHANGED <<fs, now>>

Init ==
  /\ fs = Absent
  /\ now = 0
  /\ call = NoCall
  /\ result = NoResult
  /\ io = <<>>
  /\ mem = NoState

Next == Step(MainInputs) \/ Proceed

Spec == Init /\ [][Next]_vars

(***************************************************************************)
(* Documents that were edited by hand, or written by something else: the   *)
(* operations find them at PlanPath when they start.                       *)
(***************************************************************************)
\* "risks": 5 in a reflection
BadRisks ==
  JObj([task |-> JStr(<<"ship">>),
        steps |-> JList(<<JStr(StepA)>>),
        reflections |->
          JList(<<JObj([summary |-> JStr(<<"stable">>), risks |-> JInt(5)])>>)])

\* "next_actions": true in a reflection
BadNextActions ==
  JObj([task |-> JStr(<<"ship">>),
        reflections |->
          JList(<<JObj([summary |-> JStr(<<"stable">>), next_actions |-> JBool(TRUE)])>>)])

\* fields of the wrong types, a blank description, unknown statuses, a
\* percentage out of range, risks given as a string
Loose ==
  JObj([task |-> JInt(7),
        status |-> JStr(<<"done">>),
        percent_complete |-> JInt(150),
        steps |-> JList(<<JStr(StepA),
                          JObj([description |-> JStr(Blank), status |-> JStr(COMPLETED)]),
                          JObj([description |-> JStr(StepB), status |-> JStr(<<"later">>)])>>),
        subgoals |-> JStr(GoalX),
        progress_log |-> JInt(3),
        reflections |->
          JList(<<JObj([summary |-> JStr(<<"stable">>), risks |-> JStr(<<"a", "b">>),
                        next_actions |-> JNull]),
                  JInt(1)>>)])

\* status completed over a pending step
CompletedEarly ==
  JObj([task |-> JStr(<<"ship">>),
        status |-> JStr(COMPLETED),
        steps |-> JList(<<JObj([description |-> JStr(StepA), status |-> JStr(PENDING)])>>)])

\* "percent_complete": true
BoolPercent ==
  JObj([task |-> JStr(<<"ship">>),
        percent_complete |-> JBool(TRUE),
        steps |-> JList(<<JStr(StepA), JStr(StepB)>>)])

\* a log entry at 150%, and one whose message is blank
WildLog ==
  JObj([task |-> JStr(<<"ship">>),
        steps |-> JList(<<JStr(StepA), JStr(StepB)>>),
        progress_log |->
          JList(<<JObj([message |-> JStr(<<"half">>), percent_complete |-> JInt(150)]),
                  JObj([message |-> JStr(Blank), percent_complete |-> JInt(10)])>>)])

Document(block) == [enc |-> "utf8", prose |-> <<>>, block |-> block, after |-> <<>>]

HandEdited ==
  {Document(BadRisks), Document(BadNextActions), Document(Loose), Document(CompletedEarly),
   Document(BoolPercent), Document(WildLog), Document(JObj(<<>>)), Document(JList(<<>>)),
   Document([t |-> "invalid"]), Document([t |-> "missing"]),
   [enc |-> "binary", prose |-> <<>>, block |-> [t |-> "missing"], after |-> <<>>]}

DocInputs ==
  [ticks |-> {0},
   tasks |-> {<<"ship">>},
   steps |-> {<<StepA, StepB>>},
   plan_files |-> {DEFAULT_PLAN_FILE},
   overwrites |-> BOOLEAN,
   step_numbers |-> 1..2,
   statuses |-> {COMPLETED, IN_PROGRESS},
   notes |-> {Blank},
   subgoals |-> {<<GoalX>>},
   messages |-> {<<"half">>},
   percents |-> {JNull, JInt(50)},
   summaries |-> {<<"stable">>},
   risks |-> {<<>>},
   next_actions |-> {<<>>}]

InitDoc ==
  /\ fs \in {File(content) : content \in HandEdited}
  /\ now = 0
  /\ call = NoCall
  /\ result = NoResult
  /\ io = <<>>
  /\ mem = NoState

NextDoc == Step(DocInputs) \/ Proceed

SpecDoc == InitDoc /\ [][NextDoc]_vars

(***************************************************************************)
(* Callers that also pass arguments the operations reject, a task that     *)
(* holds the start marker, and a plan path that may be a directory.        *)
(***************************************************************************)
\* a task that reads like the head of a state block
MarkerTask == <<STATE_START, FENCE, "{">>

ArgInputs ==
  [ticks |-> {0},
   tasks |-> {Blank, <<"ship">>, MarkerTask},
   steps |-> {<<StepA, StepB>>},
   plan_files |-> {DEFAULT_PLAN_FILE, OUTSIDE, ELSEWHERE},
   overwrites |-> BOOLEAN,
   step_numbers |-> {0, 1, 3},
   statuses |-> {COMPLETED, <<"done">>},
   notes |-> {Blank},
   subgoals |-> {<<Blank>>, <<GoalX>>},
   messages |-> {Blank, <<"half">>},
   percents |-> {JNull, JInt(0 - 1), JInt(50), JInt(101)},
   summaries |-> {Blank, <<"stable">>},
   risks |-> {<<>>},
   next_actions |-> {<<>>}]

\* nothing at the plan path, a directory, or a plan without steps
InitArgs ==
  /\ fs \in {Absent, Dir, File(Document(JObj(<<>>)))}
  /\ now = 0
  /\ call = NoCall
  /\ result = NoResult
  /\ io = <<>>
  /\ mem = NoState

NextArgs == Step(ArgInputs) \/ Proceed

SpecArgs == InitArgs /\ [][NextArgs]_vars

(***************************************************************************)
(* Subgoals set, merged and completed, on a new plan and on a document     *)
(* whose subgoals were written by hand, one description twice.             *)
(***************************************************************************)
GoalsByHand ==
  JObj([task |-> JStr(<<"ship">>),
        steps |-> JList(<<JStr(StepA)>>),
        subgoals |->
          JList(<<JObj([description |-> JStr(GoalX), status |-> JStr(BLOCKED)]),
                  JObj([description |-> JStr(<<"docs">>), status |-> JStr(IN_PROGRESS)]),
                  JObj([description |-> JStr(GoalX), status |-> JStr(COMPLETED)])>>)])

GoalLists == {<<GoalX>>, <<GoalY, Blank, GoalX, <<"tests", SP>>>>}

InitGoals ==
  /\ fs \in {Absent, File(Document(GoalsByHand))}
  /\ now = 0
  /\ call = NoCall
  /\ result = NoResult
  /\ io = <<>>
  /\ mem = NoState

NextGoals ==
  \/ CreatePlan({0}, <<"ship">>, <<StepA>>, DEFAULT_PLAN_FILE, TRUE)
  \/ \E subgoals \in GoalLists, replace \in BOOLEAN :
       SetSubgoalsCall({0}, subgoals, DEFAULT_PLAN_FILE, replace)
  \/ TrackProgressCall({0}, <<"done">>, JNull, DEFAULT_PLAN_FILE, TRUE, FALSE)
  \/ Proceed

SpecGoals == InitGoals /\ [][NextGoals]_vars

(***************************************************************************)
(* Calls at the clock reading of the call before and at later ones.        *)
(***************************************************************************)
ClockInputs ==
  [ticks |-> {0, 1},
   tasks |-> {<<"ship">>},
   steps |-> {<<StepA, StepB>>},
   plan_files |-> {DEFAULT_PLAN_FILE},
   overwrites |-> BOOLEAN,
   step_numbers |-> {1},
   statuses |-> {COMPLETED},
   notes |-> {Blank},
   subgoals |-> {<<GoalX>>},
   messages |-> {<<"half">>},
   percents |-> {JNull},
   summaries |-> {<<"stable">>},
   risks |-> {<<>>},
   next_actions |-> {<<>>}]

InitClock ==
  /\ fs = Absent
  /\ now = 0
  /\ call = NoCall
  /\ result = NoResult
  /\ io = <<>>
  /\ mem = NoState

NextClock == Step(ClockInputs) \/ Proceed

SpecClock == InitClock /\ [][NextClock]_vars

(***************************************************************************)
(* Two callers of update_plan on one plan document.  Nothing locks the     *)
(* file: a caller reads it, changes its copy of the state, and writes it   *)
(* with write_text, which is an open that truncates and a write, two calls *)
(* the other caller's calls can come between.  Here call, result and mem   *)
(* hold one value per caller, and io the file-system calls of both, each   *)
(* with its caller, in the order they were made.                           *)
(***************************************************************************)
Callers == {"a", "b"}

Did(c, what) == \E i \in 1..Len(io) : io[i] = [who |-> c, what |-> what]

By(c, calls) == [i \in 1..Len(calls) |-> [who |-> c, what |-> calls[i]]]

\* What is left of a longer text behind a shorter one written over it from
\* the start.  A text with one progress entry more is longer by that entry's
\* line and its object in the state block, and what is left of it is the
\* end of its state block with the fence and the end marker.
LongRemains == <<"~", "}", FENCE_END, STATE_END>>

\* Between two texts with as many entries the statuses and the percentage
\* decide, by a few characters: a piece of the end marker may be left.
ShortRemains == <<"-->">>

Entries(content) ==
  IF content.block.t = "obj" THEN Len(content.block.o.progress_log.l) ELSE 0

\* the file after new is written at offset 0 over old
Overlaid(old, new) ==
  IF old = Truncated \/ Entries(old) < Entries(new)
  THEN {new}
  ELSE IF Entries(old) > Entries(new)
  THEN {[new EXCEPT !.after = LongRemains]}
  ELSE IF [old EXCEPT !.after = <<>>] = new
  THEN {old}
  ELSE {new, [new EXCEPT !.after = ShortRemains]}

\* lines 432-478 as one step: the checks, the read and the change of the
\* state read; out is update_plan's outcome, of which the write is not taken
Reading(c, request, out) ==
  /\ Bounded(out)
  /\ out.result.kind = "return"
  /\ call' = [call EXCEPT ![c] = request]
  /\ mem' = [mem EXCEPT ![c] = out.mem]
  /\ result' = [result EXCEPT
                  ![c] = IF StartsWithError(out.result.msg) THEN out.result ELSE NoResult]
  /\ io' = io \o By(c, IF StartsWithError(out.result.msg) THEN out.io ELSE <<"stat", "read">>)
  /\ UNCHANGED <<fs, now>>

RaceRead(c, step_number, status, note) ==
  /\ call[c] = NoCall
  /\ Reading(c, [op |-> "update_plan", step_number |-> step_number, status |-> status,
                 note |-> note, plan_file |-> DEFAULT_PLAN_FILE],
             update_plan(fs, now, step_number, status, note, DEFAULT_PLAN_FILE, "ok", "ok"))

\* lines 295-296: mkdir, and the open of write_text, which empties the file
RaceOpen(c) ==
  /\ call[c] # NoCall
  /\ result[c] = NoResult
  /\ ~Did(c, "open")
  /\ fs' = File(Truncated)
  /\ io' = io \o By(c, <<"mkdir", "open">>)
  /\ UNCHANGED <<now, call, result, mem>>

\* lines 296-297 and 480-487: the write of write_text, and the result
RaceWrite(c) ==
  /\ Did(c, "open")
  /\ result[c] = NoResult
  /\ \E content \in Overlaid(fs.content, _serialize_markdown(mem[c].val)) :
       fs' = File(content)
  /\ result' = [result EXCEPT
                  ![c] = UpdatePersist(fs, Loaded(PlanPath, mem[c], <<>>, <<>>), mem[c].val,
                                       call[c].step_number, call[c].status, "ok").result]
  /\ io' = io \o By(c, <<"write">>)
  /\ UNCHANGED <<now, call, mem>>

\* the caller has its result and may call again
RaceProceed(c) ==
  /\ result[c] # NoResult
  /\ call' = [call EXCEPT ![c] = NoCall]
  /\ result' = [result EXCEPT ![c] = NoResult]
  /\ mem' = [mem EXCEPT ![c] = NoState]
  /\ io' = SelectSeq(io, LAMBDA entry : entry.who # c)
  /\ UNCHANGED <<fs, now>>

RaceStatuses == {COMPLETED, BLOCKED}

RaceNotes == {Blank, <<"note">>}

InitRace ==
  /\ fs = create_plan(Absent, 0, <<"ship">>, <<StepA, StepB>>, DEFAULT_PLAN_FILE, FALSE, "ok").fs
  /\ now = 0
  /\ call = [c \in Callers |-> NoCall]
  /\ result = [c \in Callers |-> NoResult]
  /\ io = <<>>
  /\ mem = [c \in Callers |-> NoState]

NextRace ==
  \/ \E c \in Callers, step_number \in 1..2, status \in RaceStatuses, note \in RaceNotes :
       RaceRead(c, step_number, status, note)
  \/ \E c \in Callers : RaceOpen(c)
  \/ \E c \in Callers : RaceWrite(c)
  \/ \E c \in Callers : RaceProceed(c)

SpecRace == InitRace /\ [][NextRace]_vars

(***************************************************************************)
(* decompose_task on tasks of up to MaxParts parts: words, blanks, and a   *)
(* part that reads like an error, joined by blanks, connectives, commas    *)
(* and full stops.                                                         *)
(***************************************************************************)
Parts == {<<"inspect">>, <<"build">>, <<"Error", ":", "disk">>, <<>>}

Joints == {<<SP>>, <<SP, "then", SP>>, <<SP, "Next", SP>>, <<",", SP>>, <<".", SP>>}

RECURSIVE TasksOf(_)
TasksOf(n) ==
  IF n <= 1
  THEN Parts
  ELSE TasksOf(n - 1)
         \cup {task \o joint \o part : task \in TasksOf(n - 1), joint \in Joints, part \in Parts}

\* 0, and up to one more than the steps of the fallback
Wanted == 0..6

DecomposeTask(task, max_steps) ==
  /\ call = NoCall
  /\ call' = [op |-> "decompose_task", task |-> task, max_steps |-> max_steps]
  /\ result' = [kind |-> "return", steps |-> decompose_task(task, max_steps)]
  /\ UNCHANGED <<fs, now, io, mem>>

InitDecompose ==
  /\ fs = Absent
  /\ now = 0
  /\ call = NoCall
  /\ result = NoResult
  /\ io = <<>>
  /\ mem = NoState

NextDecompose ==
  \/ \E task \in TasksOf(MaxParts), max_steps \in Wanted : DecomposeTask(task, max_steps)
  \/ Proceed

SpecDecompose == InitDecompose /\ [][NextDecompose]_vars

(***************************************************************************)
(* Plans of up to MaxWide steps, their steps set pending or completed one  *)
(* at a time: every ratio of completed steps to steps.                     *)
(***************************************************************************)
WideSteps(n) == [i \in 1..n |-> <<"step">> \o IntText(i)]

NextWide ==
  \/ \E n \in 1..MaxWide : CreatePlan({0}, <<"widen">>, WideSteps(n), DEFAULT_PLAN_FILE, TRUE)
  \/ \E step_number \in 1..MaxWide, status \in {PENDING, COMPLETED} :
       UpdatePlan({0}, step_number, status, Blank, DEFAULT_PLAN_FILE)
  \/ Proceed

SpecWide == Init /\ [][NextWide]_vars

(***************************************************************************)
(* _coerce_item_list applied to lists of up to MaxItems raw entries, and   *)
(* to values that are not lists.                                           *)
(***************************************************************************)
RawEntries ==
  {JStr(StepA),
   JStr(<<SP, "build", SP>>),
   JStr(<<SP>>),
   JInt(7),
   JObj([description |-> JStr(StepB), status |-> JStr(COMPLETED)]),
   JObj([description |-> JStr(<<SP, "inspect">>), status |-> JStr(<<"blocked", SP>>)]),
   JObj([description |-> JStr(StepA), status |-> JStr(<<"later">>)]),
   JObj([description |-> JStr(Blank), status |-> JStr(COMPLETED)]),
   JObj([description |-> JStr(GoalX)]),
   JObj([status |-> JStr(IN_PROGRESS)])}

RECURSIVE RawLists(_)
RawLists(n) ==
  IF n = 0
  THEN {<<>>}
  ELSE RawLists(n - 1) \cup {Append(l, raw) : l \in RawLists(n - 1), raw \in RawEntries}

NotLists == {JNull, JInt(3), JStr(StepA), JObj([description |-> JStr(StepA)])}

CoerceItemList(raw_items) ==
  /\ call = NoCall
  /\ call' = [op |-> "_coerce_item_list", raw_items |-> raw_items]
  /\ result' = [kind |-> "return", items |-> _coerce_item_list(raw_items)]
  /\ UNCHANGED <<fs, now, io, mem>>

NextCoerce ==
  \/ \E l \in RawLists(MaxItems) : CoerceItemList(JList(l))
  \/ \E raw_items \in NotLists : CoerceItemList(raw_items)
  \/ Proceed

SpecCoerce == InitDecompose /\ [][NextCoerce]_vars

(***************************************************************************)
(* A caller that, from a plan of up to MaxSteps steps in any state that    *)
(* create_plan, update_plan and track_progress leave, only completes the   *)
(* steps that are not completed yet, one update_plan a time.  The caller   *)
(* reads each result (weak fairness of Proceed) and keeps calling, and its *)
(* calls do not fail forever (strong fairness of StepCompleted).           *)
(***************************************************************************)
RECURSIVE PlansAfter(_, _)
PlansAfter(plans, n) ==
  IF n = 0
  THEN plans
  ELSE PlansAfter(plans \cup UNION {{UpdateStep(plan, k, status, Blank, 0) :
                                       k \in 1..Len(plan.steps), status \in VALID_STATUSES} :
                                     plan \in plans},
                  n - 1)

\* the plans of 1..MaxSteps steps after up to MaxSteps update_plan calls, and
\* each of them after a track_progress that gave 50 percent
PlansUnderWay ==
  LET updated == PlansAfter({NewState(<<"ship">>, WideSteps(n), _now_utc_iso(0)) :
                               n \in 1..MaxSteps},
                            MaxSteps)
  IN updated \cup {TrackProgress(plan, <<"half">>, JInt(50), FALSE, 0) : plan \in updated}

\* the numbers of the steps of the document that are not completed
Remaining(f) ==
  IF f.kind = "file" /\ f.content.block.t = "obj"
  THEN {k \in 1..Len(f.content.block.o.steps.l) :
          f.content.block.o.steps.l[k].o.status # JStr(COMPLETED)}
  ELSE {}

CompleteStep(k) ==
  /\ k \in Remaining(fs)
  /\ UpdatePlan({0}, k, COMPLETED, Blank, DEFAULT_PLAN_FILE)

\* a call of the caller that succeeds
StepCompleted ==
  /\ \E k \in 1..MaxSteps : CompleteStep(k)
  /\ result'.kind = "return"
  /\ ~StartsWithError(result'.msg)

InitFinish ==
  /\ fs \in {File(_serialize_markdown(plan)) : plan \in PlansUnderWay}
  /\ now = 0
  /\ call = NoCall
  /\ result = NoResult
  /\ io = <<>>
  /\ mem = NoState

NextFinish ==
  \/ \E k \in 1..MaxSteps : CompleteStep(k)
  \/ Proceed

\* the caller has a step to complete and is not in a call: the states in
\* which StepCompleted is enabled
CanComplete == call = NoCall /\ Remaining(fs) # {}

\* SF_vars(StepCompleted), with CanComplete for ENABLED <<StepCompleted>>_vars
SpecFinish ==
  /\ InitFinish
  /\ [][NextFinish]_vars
  /\ WF_vars(Proceed)
  /\ (<>[]~CanComplete \/ []<><<StepCompleted>>_vars)

(***************************************************************************)
(* What the properties read.                                               *)
(***************************************************************************)
\* the invocation that has just ended returned, and not an error
Succeeded == result.kind = "return" /\ ~StartsWithError(result.msg)

\* the entry at PlanPath is a plan document: a file whose block is an object
IsPlanDocument(f) == f.kind = "file" /\ f.content.block.t = "obj"

\* the fields of the document's block
DocStatus(f) == f.content.block.o.status.s

DocItemStatuses(f, key) ==
  [i \in 1..Len(f.content.block.o[key].l) |-> f.content.block.o[key].l[i].o.status.s]

Every(statuses, status) == \A i \in 1..Len(statuses) : statuses[i] = status

HowMany(statuses, status) == Cardinality({i \in 1..Len(statuses) : statuses[i] = status})

StatusesOf(items) == [i \in 1..Len(items) |-> items[i].status]

(***************************************************************************)
(* C1.                                                                     *)
(***************************************************************************)
\* C1, as stated: in every persisted plan document, status completed implies
\* that every step and every subgoal is completed.
C1_CompletedImpliesStepsAndSubgoals ==
  (IsPlanDocument(fs) /\ DocStatus(fs) = COMPLETED) =>
    /\ Every(DocItemStatuses(fs, "steps"), COMPLETED)
    /\ Every(DocItemStatuses(fs, "subgoals"), COMPLETED)

\* C1, amended: in every plan document persisted by calls that began with
\* create_plan, status completed implies that every step is completed; the
\* subgoals need not be.
C1_CompletedImpliesSteps ==
  (IsPlanDocument(fs) /\ DocStatus(fs) = COMPLETED) =>
    /\ DocItemStatuses(fs, "steps") # <<>>
    /\ Every(DocItemStatuses(fs, "steps"), COMPLETED)

\* a completed document of two completed steps with a pending subgoal
C1_Witness ==
  /\ IsPlanDocument(fs)
  /\ DocStatus(fs) = COMPLETED
  /\ Len(DocItemStatuses(fs, "steps")) = 2
  /\ Every(DocItemStatuses(fs, "steps"), COMPLETED)
  /\ DocItemStatuses(fs, "subgoals") = <<PENDING>>

(***************************************************************************)
(* C2.                                                                     *)
(***************************************************************************)
\* C2: from a plan made by create_plan, at most one step of the persisted
\* document is in_progress, and after a successful update_plan(k, in_progress)
\* step k is the only in_progress step.
C2_AtMostOneInProgress ==
  /\ IsPlanDocument(fs) => HowMany(DocItemStatuses(fs, "steps"), IN_PROGRESS) <= 1
  /\ (call.op = "update_plan" /\ Succeeded /\ call.status = IN_PROGRESS) =>
       /\ IsPlanDocument(fs)
       /\ \A i \in 1..Len(DocItemStatuses(fs, "steps")) :
            DocItemStatuses(fs, "steps")[i] = IN_PROGRESS <=> i = call.step_number

\* step 2 was made in_progress while step 1 was, and step 1 is pending again
C2_Witness ==
  /\ call.op = "update_plan"
  /\ Succeeded
  /\ call.status = IN_PROGRESS
  /\ call.step_number = 2
  /\ IsPlanDocument(fs)
  /\ DocItemStatuses(fs, "steps") = <<PENDING, IN_PROGRESS>>

(***************************************************************************)
(* C3.                                                                     *)
(***************************************************************************)
\* C3: after a successful update_plan the persisted status is completed if
\* every step is completed and active otherwise, and when every step is
\* completed percent_complete is 100.
C3_StatusIffAllStepsCompleted ==
  (call.op = "update_plan" /\ Succeeded) =>
    /\ IsPlanDocument(fs)
    /\ fs.content.block = JsonOfState(mem.val)
    /\ DocStatus(fs) =
         IF Every(DocItemStatuses(fs, "steps"), COMPLETED) THEN COMPLETED ELSE ACTIVE
    /\ Every(DocItemStatuses(fs, "steps"), COMPLETED) =>
         fs.content.block.o.percent_complete = JInt(100)

\* the last of two steps was completed by update_plan
C3_Witness ==
  /\ call.op = "update_plan"
  /\ Succeeded
  /\ call.status = COMPLETED
  /\ IsPlanDocument(fs)
  /\ DocItemStatuses(fs, "steps") = <<COMPLETED, COMPLETED>>
  /\ DocStatus(fs) = COMPLETED
  /\ fs.content.block.o.percent_complete = JInt(100)

(***************************************************************************)
(* C4.                                                                     *)
(***************************************************************************)
Distance(a, b) == IF a >= b THEN a - b ELSE b - a

\* C4: after a successful update_plan on a plan of total_steps >= 1 steps of
\* which completed_count are completed, percent_complete is an integer
\* nearest to 100 * completed_count / total_steps: no further from it than
\* one half.
C4_PercentIsNearestInteger ==
  (call.op = "update_plan" /\ Succeeded) =>
    /\ IsPlanDocument(fs)
    /\ Len(DocItemStatuses(fs, "steps")) >= 1
    /\ fs.content.block.o.percent_complete.t = "int"
    /\ 2 * Distance(100 * HowMany(DocItemStatuses(fs, "steps"), COMPLETED),
                    fs.content.block.o.percent_complete.n
                      * Len(DocItemStatuses(fs, "steps")))
         <= Len(DocItemStatuses(fs, "steps"))

\* five of eight steps completed, 62.5 percent: a tie, rounded to 62
C4_Witness ==
  /\ call.op = "update_plan"
  /\ Succeeded
  /\ IsPlanDocument(fs)
  /\ Len(DocItemStatuses(fs, "steps")) = 8
  /\ HowMany(DocItemStatuses(fs, "steps"), COMPLETED) = 5
  /\ fs.content.block.o.percent_complete = JInt(62)

(***************************************************************************)
(* C5.                                                                     *)
(***************************************************************************)
\* what create_plan makes of a list of descriptions: numbered from 1, step 1
\* in_progress and the others pending, status active, 0 percent, the one
\* progress entry "Plan created", no subgoals and no reflections
FreshPlan(state) ==
  /\ \A i \in 1..Len(state.steps) :
       /\ state.steps[i].id = i
       /\ state.steps[i].status = IF i = 1 THEN IN_PROGRESS ELSE PENDING
  /\ state.status = ACTIVE
  /\ state.percent_complete = JInt(0)
  /\ Len(state.progress_log) = 1
  /\ state.progress_log[1].message = <<"Plan created">>
  /\ state.subgoals = <<>>
  /\ state.reflections = <<>>

\* the distinct texts of a list, trimmed, the blank ones left out
TrimmedTexts(texts) == {Strip(texts[i]) : i \in 1..Len(texts)} \ {<<>>}

\* descriptions are the distinct non-blank trimmed texts, in the order of
\* their first occurrence
DistinctTextsOf(descriptions, texts) ==
  /\ Len(descriptions) = Cardinality(TrimmedTexts(texts))
  /\ Range(descriptions) = TrimmedTexts(texts)
  /\ \A i, j \in 1..Len(descriptions) :
       i < j =>
         \E a \in 1..Len(texts) :
           /\ Strip(texts[a]) = descriptions[i]
           /\ \A b \in 1..a : Strip(texts[b]) # descriptions[j]

\* C5, as stated: a successful create_plan called with N steps persists a
\* fresh plan of exactly N checklist items.
C5_CreateKeepsEveryStep ==
  (call.op = "create_plan" /\ Succeeded /\ call.steps # <<>>) =>
    /\ IsPlanDocument(fs)
    /\ fs.content.block = JsonOfState(mem.val)
    /\ FreshPlan(mem.val)
    /\ Len(mem.val.steps) = Len(call.steps)

\* C5, amended: a successful create_plan persists a fresh plan whose N >= 1
\* checklist items are the steps it was called with, trimmed, the blank ones
\* and the repeats dropped, in their order; when none is left the steps are
\* derived from the task, and are not empty.
C5_CreateKeepsDistinctSteps ==
  (call.op = "create_plan" /\ Succeeded) =>
    /\ IsPlanDocument(fs)
    /\ fs.content.block = JsonOfState(mem.val)
    /\ FreshPlan(mem.val)
    /\ Len(mem.val.steps) >= 1
    /\ TrimmedTexts(call.steps) # {} =>
         DistinctTextsOf(Descriptions(mem.val.steps), call.steps)

\* three steps given, one of them blank and one a repeat: one item
C5_Witness ==
  /\ call.op = "create_plan"
  /\ Succeeded
  /\ Len(call.steps) = 3
  /\ IsPlanDocument(fs)
  /\ Descriptions(mem.val.steps) = <<StepA>>
  /\ FreshPlan(mem.val)

(***************************************************************************)
(* C6.                                                                     *)
(***************************************************************************)
\* the invocation that has just ended took the force-complete branch
Forced ==
  \/ call.op = "track_progress"
       /\ (call.complete_plan \/ call.percent_complete = JInt(100))
  \/ call.op = "reflect_on_plan" /\ call.finalize

ForceCompleted(state) ==
  /\ Every(StatusesOf(state.steps), COMPLETED)
  /\ Every(StatusesOf(state.subgoals), COMPLETED)
  /\ state.status = COMPLETED
  /\ state.percent_complete = JInt(100)

\* the document at f loads
Loadable(f, t) ==
  /\ f.kind = "file"
  /\ f.content.enc = "utf8"
  /\ ~Raised(_load_state_from_markdown(f.content, t))

Derived(state) ==
  [steps |-> state.steps, subgoals |-> state.subgoals, status |-> state.status,
   percent_complete |-> state.percent_complete]

\* C6: a successful track_progress with complete_plan or percent_complete 100,
\* and a successful reflect_on_plan with finalize, leave every step and
\* every subgoal completed, status completed and 100 percent, in memory and in
\* the document when it is still there; and from one prior document the two
\* operations yield the same steps, subgoals, status and percentage.
C6_ForceComplete ==
  /\ (Forced /\ Succeeded) =>
       /\ mem.has
       /\ ForceCompleted(mem.val)
       /\ fs.kind = "file" => fs.content.block = JsonOfState(mem.val)
  /\ (call = NoCall /\ Loadable(fs, now)) =>
       \A message \in MainInputs.messages, summary \in MainInputs.summaries,
          percent_complete \in MainInputs.percents, complete_plan \in BOOLEAN :
         (complete_plan \/ percent_complete = JInt(100)) =>
           Derived(track_progress(fs, now, message, percent_complete, DEFAULT_PLAN_FILE,
                                  complete_plan, FALSE, "ok", "ok", "ok").mem.val)
             = Derived(reflect_on_plan(fs, now, summary, <<>>, <<>>, DEFAULT_PLAN_FILE,
                                       TRUE, FALSE, "ok", "ok", "ok").mem.val)

\* percent_complete 100 alone completed a plan of two steps and a subgoal
C6_Witness ==
  /\ call.op = "track_progress"
  /\ ~call.complete_plan
  /\ call.percent_complete = JInt(100)
  /\ Succeeded
  /\ mem.has
  /\ Len(mem.val.steps) = 2
  /\ Len(mem.val.subgoals) = 1
  /\ ForceCompleted(mem.val)

(***************************************************************************)
(* C7.                                                                     *)
(***************************************************************************)
CleanupAsked(c) == c.op \in {"track_progress", "reflect_on_plan"} /\ c.cleanup_plan_file

\* C7: a file goes away only in a track_progress or reflect_on_plan with
\* cleanup_plan_file whose resulting status is completed; when the resulting
\* status is not completed the call returns an error, unlinks nothing and
\* the file is still there.
C7_CleanupOnlyWhenCompleted ==
  [][/\ (fs.kind = "file" /\ fs'.kind = "absent") =>
          /\ CleanupAsked(call')
          /\ mem'.has
          /\ mem'.val.status = COMPLETED
     /\ (CleanupAsked(call') /\ mem'.has /\ mem'.val.status # COMPLETED) =>
          /\ result'.kind = "return"
          /\ StartsWithError(result'.msg)
          /\ fs'.kind = "file"
          /\ ~InSeq("unlink", io')]_vars

\* reflect_on_plan without finalize asked to clean up an active plan: the
\* reflection is persisted, the cleanup rejected
C7_Witness ==
  /\ call.op = "reflect_on_plan"
  /\ call.cleanup_plan_file
  /\ ~call.finalize
  /\ result = Return(Err("cleanup_plan_file requires a completed plan"))
  /\ IsPlanDocument(fs)
  /\ DocStatus(fs) = ACTIVE
  /\ fs.content.block = JsonOfState(mem.val)

(***************************************************************************)
(* C8.                                                                     *)
(***************************************************************************)
CompleteAndCleanup(c) ==
  \/ c.op = "track_progress" /\ c.complete_plan /\ c.cleanup_plan_file
  \/ c.op = "reflect_on_plan" /\ c.finalize /\ c.cleanup_plan_file

IsWarning(res) ==
  res.kind = "return" /\ Len(res.msg) >= 2 /\ res.msg[1] = "Warning" /\ res.msg[2] = ":"

WellFormedItems(items) ==
  \A i \in 1..Len(items) :
    /\ items[i].id = i
    /\ items[i].description # <<>>
    /\ items[i].status \in VALID_STATUSES

WellFormedState(state) ==
  /\ state.status \in {ACTIVE, COMPLETED}
  /\ state.percent_complete = JNull
       \/ (IsInt(state.percent_complete) /\ IntOf(state.percent_complete) \in 0..100)
  /\ state.created_at # <<>>
  /\ state.updated_at # <<>>
  /\ WellFormedItems(state.steps)
  /\ WellFormedItems(state.subgoals)
  /\ \A i \in 1..Len(state.progress_log) : state.progress_log[i].message # <<>>
  /\ \A i \in 1..Len(state.reflections) : state.reflections[i].summary # <<>>

\* C9: for every JSON object found in the document, _coerce_state returns a
\* well-formed plan state and does not raise.
C9_CoercerIsTotal ==
  IsPlanDocument(fs) =>
    /\ ~Raised(_coerce_state(fs.content.block, now))
    /\ WellFormedState(_coerce_state(fs.content.block, now).val)

(***************************************************************************)
(* C10.                                                                    *)
(***************************************************************************)
\* the invocation that has just ended did what it was asked to: it wrote the
\* document, and no cleanup it was asked for was rejected
Done ==
  /\ InSeq("write", io)
  /\ ~(CleanupAsked(call) /\ mem.val.status # COMPLETED)

\* C10: every invocation ends by returning a result, never by raising, and
\* the result starts with "Error:" exactly when the invocation failed.
C10_ReturnsAndPrefixesErrors ==
  call # NoCall =>
    /\ result.kind = "return"
    /\ StartsWithError(result.msg) <=> ~Done

(***************************************************************************)
(* C11.                                                                    *)
(***************************************************************************)
LoadOps == {"update_plan", "set_subgoals", "track_progress", "reflect_on_plan"}

\* a readable file without its markers, or whose block does not decode, or
\* decodes to something that is no object
Corrupted(f) == f.kind = "file" /\ f.content.enc = "utf8" /\ f.content.block.t # "obj"

LoadErrors ==
  {Err("Plan file is missing embedded JSON state markers"),
   Err("Plan file contains invalid JSON state"),
   Err("Plan state must be a JSON object")}

\* C11: on a document without markers, with a block that does not decode or
\* that is no object, update_plan, set_subgoals, track_progress and
\* reflect_on_plan return an error, the load error once the file was read,
\* and neither write nor delete: the document is as it was.
C11_CorruptedIsPreserved ==
  [][(Corrupted(fs) /\ call'.op \in LoadOps) =>
       /\ result'.kind = "return"
       /\ StartsWithError(result'.msg)
       /\ InSeq("read", io') => result'.msg \in LoadErrors
       /\ fs' = fs
       /\ \A c \in {"mkdir", "write", "write_failed", "unlink", "unlink_failed"} :
            ~InSeq(c, io')]_vars

\* track_progress asked to complete and clean up a plan whose block does not
\* decode: the load error, and the document is still there
C11_Witness ==
  /\ call.op = "track_progress"
  /\ call.complete_plan
  /\ call.cleanup_plan_file
  /\ result = Return(Err("Plan file contains invalid JSON state"))
  /\ fs = File(Document([t |-> "invalid"]))

(***************************************************************************)
(* C12.                                                                    *)
(***************************************************************************)
InRange(percent_complete) == percent_complete = JNull \/ percent_complete.n \in 0..100

\* the arguments of invocation c are ones its validation rejects
InvalidArguments(c) ==
  \/ c.op = "create_plan" /\ Strip(c.task) = <<>>
  \/ c.op = "update_plan" /\ (c.step_number < 1 \/ c.status \notin VALID_STATUSES)
  \/ c.op = "set_subgoals" /\ \A i \in 1..Len(c.subgoals) : Strip(c.subgoals[i]) = <<>>
  \/ c.op = "track_progress" /\ (Strip(c.message) = <<>> \/ ~InRange(c.percent_complete))
  \/ c.op = "reflect_on_plan" /\ Strip(c.summary) = <<>>

\* C12: an invocation whose arguments fail validation returns an error, makes
\* no file-system call and leaves the entry at the plan path as it was.
C12_InvalidArgumentsTouchNothing ==
  [][InvalidArguments(call') =>
       /\ result'.kind = "return"
       /\ StartsWithError(result'.msg)
       /\ io' = <<>>
       /\ mem' = NoState
       /\ fs' = fs]_vars

\* an unknown status was refused on an existing plan, without a read
C12_Witness ==
  /\ call.op = "update_plan"
  /\ call.status = <<"done">>
  /\ call.step_number = 1
  /\ result.kind = "return"
  /\ StartsWithError(result.msg)
  /\ io = <<>>
  /\ IsPlanDocument(fs)

(***************************************************************************)
(* C13.                                                                    *)
(***************************************************************************)
\* the steps of the plan the document at f holds
StepsAt(f, t) == _load_state_from_markdown(f.content, t).val.steps

\* C13: update_plan with a status that is not recognized, or on a plan
\* without steps, or with a step_number beyond its steps, returns an error
\* and writes nothing: the document is as it was.
C13_RejectedUpdateWritesNothing ==
  [][(/\ call'.op = "update_plan"
      /\ \/ call'.status \notin VALID_STATUSES
         \/ /\ Loadable(fs, now')
            /\ StepsAt(fs, now') = <<>> \/ call'.step_number > Len(StepsAt(fs, now'))) =>
       /\ result'.kind = "return"
       /\ StartsWithError(result'.msg)
       /\ fs' = fs
       /\ ~InSeq("mkdir", io') /\ ~InSeq("write", io') /\ ~InSeq("write_failed", io')
       /\ (InSeq("read", io') /\ StepsAt(fs, now') = <<>>) =>
            result' = Return(Err("Plan has no steps to update"))
       /\ (InSeq("read", io') /\ StepsAt(fs, now') # <<>>) =>
            result' = Return(Err("step_number is out of range"))]_vars

\* step 3 of a plan of two steps
C13_Witness ==
  /\ call.op = "update_plan"
  /\ call.step_number = 3
  /\ call.status = COMPLETED
  /\ result = Return(Err("step_number is out of range"))
  /\ IsPlanDocument(fs)
  /\ Len(DocItemStatuses(fs, "steps")) = 2

(***************************************************************************)
(* C14.                                                                    *)
(***************************************************************************)
\* C14: create_plan on a path that exists, with overwrite false, and
\* create_plan on a directory, with either overwrite, return an error and
\* leave what is at the path as it was.
C14_CreateKeepsWhatExists ==
  [][(/\ call'.op = "create_plan"
      /\ call'.plan_file = DEFAULT_PLAN_FILE
      /\ (fs.kind # "absent" /\ ~call'.overwrite) \/ fs.kind = "dir") =>
       /\ result'.kind = "return"
       /\ StartsWithError(result'.msg)
       /\ fs' = fs
       /\ ~InSeq("mkdir", io') /\ ~InSeq("write", io') /\ ~InSeq("write_failed", io')
       /\ (Strip(call'.task) # <<>> /\ ~call'.overwrite) =>
            result' = Return(Err("Plan file already exists and overwrite is False"))
       /\ (Strip(call'.task) # <<>> /\ call'.overwrite) =>
            result' = Return(Err("is a directory"))]_vars

\* create_plan without overwrite on an existing plan
C14_Witness ==
  /\ call.op = "create_plan"
  /\ ~call.overwrite
  /\ result = Return(Err("Plan file already exists and overwrite is False"))
  /\ IsPlanDocument(fs)
  /\ Get(fs.content.block, "task", JNull) = JStr(<<"ship">>)

(***************************************************************************)
(* C15.                                                                    *)
(***************************************************************************)
\* the plan state an operation loads from the document at f
StateAt(f, t) == _load_state_from_markdown(f.content, t).val

Known(items, description) == \E j \in 1..Len(items) : items[j].description = description

\* C15: after a successful set_subgoals, with replace or without, a subgoal
\* whose description was among the subgoals before has a status it had there,
\* and a subgoal whose description is new is pending.
C15_SubgoalsKeepTheirStatus ==
  [][(call'.op = "set_subgoals" /\ Succeeded') =>
       /\ IsPlanDocument(fs')
       /\ fs'.content.block = JsonOfState(mem'.val)
       /\ \A i \in 1..Len(mem'.val.subgoals) :
            IF Known(StateAt(fs, now').subgoals, mem'.val.subgoals[i].description)
            THEN \E j \in 1..Len(StateAt(fs, now').subgoals) :
                   /\ StateAt(fs, now').subgoals[j].description
                        = mem'.val.subgoals[i].description
                   /\ StateAt(fs, now').subgoals[j].status = mem'.val.subgoals[i].status
            ELSE mem'.val.subgoals[i].status = PENDING]_vars

\* a new subgoal, pending, before one that was completed and stays so
C15_Witness ==
  /\ call.op = "set_subgoals"
  /\ call.replace
  /\ Succeeded
  /\ mem.val.subgoals = <<Item(1, GoalY, PENDING), Item(2, GoalX, COMPLETED)>>

(***************************************************************************)
(* C16.                                                                    *)
(***************************************************************************)
\* C16: after a successful set_subgoals the subgoals are numbered 1..N and
\* their descriptions are, with replace, the input trimmed, without its
\* blank entries and repeats, in input order; without replace, the
\* descriptions before the call in their order and then the input's, each
\* description once.
C16_SubgoalDescriptions ==
  [][(call'.op = "set_subgoals" /\ Succeeded') =>
       /\ \A i \in 1..Len(mem'.val.subgoals) : mem'.val.subgoals[i].id = i
       /\ call'.replace =>
            DistinctTextsOf(Descriptions(mem'.val.subgoals), call'.subgoals)
       /\ ~call'.replace =>
            DistinctTextsOf(Descriptions(mem'.val.subgoals),
                            Descriptions(StateAt(fs, now').subgoals) \o call'.subgoals)]_vars

\* "tests" and "quality" were merged into a plan that had "quality": the
\* prior subgoal stays first, the new one follows
C16_Witness ==
  /\ call.op = "set_subgoals"
  /\ ~call.replace
  /\ Len(call.subgoals) = 4
  /\ Succeeded
  /\ Descriptions(mem.val.subgoals) = <<GoalX, GoalY>>

(***************************************************************************)
(* C17.                                                                    *)
(***************************************************************************)
\* C17: after a successful set_subgoals without replace, the same call once
\* more yields the same subgoals: descriptions, order, ids and statuses.
C17_MergeIsIdempotent ==
  (call.op = "set_subgoals" /\ ~call.replace /\ Succeeded) =>
    /\ IsPlanDocument(fs)
    /\ set_subgoals(fs, now, call.subgoals, call.plan_file, FALSE, "ok", "ok").mem.val.subgoals
         = mem.val.subgoals

\* "quality" was merged into a plan that had it: still one entry
C17_Witness ==
  /\ call.op = "set_subgoals"
  /\ ~call.replace
  /\ call.subgoals = <<GoalX>>
  /\ Succeeded
  /\ Descriptions(mem.val.subgoals) = <<GoalX, GoalY>>

(***************************************************************************)
(* C18.                                                                    *)
(***************************************************************************)
\* C18: every plan state an operation produced is read back equal from the
\* document it is serialized to: task, status, percent_complete, timestamps,
\* steps, subgoals, progress entries and reflections.
C18_RoundTrip ==
  mem.has =>
    _load_state_from_markdown(_serialize_markdown(mem.val), now) = Ok(mem.val)

(***************************************************************************)
(* C19.                                                                    *)
(***************************************************************************)
Mutators == {"update_plan", "set_subgoals", "track_progress", "reflect_on_plan"}

\* the logs of before are kept, in order, at the head of those of after
LogsKept(before, after) ==
  /\ IsPrefix(before.progress_log, after.progress_log)
  /\ IsPrefix(before.reflections, after.reflections)

Grown(before, after, key) == Len(after[key]) = Len(before[key]) + 1

Origin(state) == [task |-> state.task, created_at |-> state.created_at]

\* C20: update_plan, set_subgoals, track_progress and reflect_on_plan leave
\* task and created_at as they were: in the document, whenever the call
\* leaves a plan document, and in the state a successful call holds and
\* writes; every successful call sets updated_at to the time of the call.
C20_TaskAndCreationAreFixed ==
  [][(call'.op \in Mutators /\ Loadable(fs, now')) =>
       /\ Loadable(fs', now') => Origin(StateAt(fs', now')) = Origin(StateAt(fs, now'))
       /\ Succeeded' =>
            /\ Origin(mem'.val) = Origin(StateAt(fs, now'))
            /\ mem'.val.updated_at = _now_utc_iso(now')
            /\ IsPlanDocument(fs') => fs'.content.block = JsonOfState(mem'.val)]_vars

\* a call later than the creation: updated_at moved, created_at did not
C20_Witness ==
  /\ call.op \in Mutators
  /\ Succeeded
  /\ IsPlanDocument(fs)
  /\ StateAt(fs, now).created_at = _now_utc_iso(0)
  /\ StateAt(fs, now).updated_at = _now_utc_iso(1)
  /\ StateAt(fs, now).task = <<"ship">>

(***************************************************************************)
(* C21.                                                                    *)
(***************************************************************************)
\* null, or an integer from 0 to 100
PercentInRange(percent) == percent = JNull \/ (percent.t = "int" /\ percent.n \in 0..100)

\* C21: in every state an operation has loaded and holds, and in every
\* document an operation has written, the percent_complete of the state is
\* null or an integer from 0 to 100.
C21_PercentIsNullOrInRange ==
  /\ mem.has => PercentInRange(mem.val.percent_complete)
  /\ (IsPlanDocument(fs) /\ InSeq("write", io)) =>
       PercentInRange(Get(fs.content.block, "percent_complete", JNull))

(***************************************************************************)
(* C22.                                                                    *)
(***************************************************************************)
\* ids 1..Len(items), in list order
Dense(items) == \A i \in 1..Len(items) : items[i].id = i

\* the same of the items of a document's block
DenseIn(f, key) ==
  \A i \in 1..Len(f.content.block.o[key].l) : f.content.block.o[key].l[i].o.id = JInt(i)

\* C22: in every state an operation has loaded and holds, and in every
\* document an operation has written, the ids of the steps are 1..len(steps)
\* and those of the subgoals 1..len(subgoals), in list order.
C22_IdsAreDense ==
  /\ mem.has => Dense(mem.val.steps) /\ Dense(mem.val.subgoals)
  /\ (IsPlanDocument(fs) /\ InSeq("write", io)) => DenseIn(fs, "steps") /\ DenseIn(fs, "subgoals")

\* the document whose second step has a blank description was loaded, its
\* third step is now the second, and subgoals were set on it
C22_Witness ==
  /\ mem.has
  /\ IsPlanDocument(fs)
  /\ InSeq("write", io)
  /\ mem.val.task = <<"7">>
  /\ Descriptions(mem.val.steps) = <<StepA, StepB>>
  /\ mem.val.steps[2].id = 2
  /\ Len(mem.val.subgoals) = 1

(***************************************************************************)
(* C23.                                                                    *)
(***************************************************************************)
\* both callers were told that their update was made
BothUpdated == \A c \in Callers : result[c] # NoResult /\ ~StartsWithError(result[c].msg)

\* the caller of the last write
LastWriter == io[LastOf({i \in 1..Len(io) : io[i].what = "write"})].who

\* C23: with two callers on one plan document, once both have been told
\* that their update was made the document is the full rewrite by the
\* caller that wrote last, and it loads as that caller's state, never as a
\* mix of the two states.
C23_LastWriterWins ==
  BothUpdated =>
    /\ fs = File(_serialize_markdown(mem[LastWriter].val))
    /\ Loadable(fs, now)
    /\ StateAt(fs, now) = mem[LastWriter].val

(***************************************************************************)
(* C24.                                                                    *)
(***************************************************************************)
\* the plan_file of invocation c resolves to a path outside the root
Escapes(c) ==
  /\ c # NoCall
  /\ ~IsPrefix(WORKSPACE_ROOT,
               IF c.plan_file # <<>> /\ Head(c.plan_file) = "/"
               THEN ResolveFrom(Tail(c.plan_file), <<"/">>)
               ELSE ResolveFrom(c.plan_file, WORKSPACE_ROOT))

\* C24: an invocation of any operation whose plan_file resolves outside the
\* workspace root returns an error and makes no file-system call: nothing is
\* read, created, written or deleted, and the entry at the plan path is as
\* it was.
C24_EscapingPathTouchesNothing ==
  [][Escapes(call') =>
       /\ result'.kind = "return"
       /\ StartsWithError(result'.msg)
       /\ io' = <<>>
       /\ fs' = fs]_vars

\* create_plan with valid arguments, overwrite and a path above the root,
\* refused for the path while a plan document exists in the root
C24_Witness ==
  /\ call.op = "create_plan"
  /\ call.plan_file = OUTSIDE
  /\ call.overwrite
  /\ Strip(call.task) # <<>>
  /\ result = Return(Err("Path is outside workspace root"))
  /\ io = <<>>
  /\ IsPlanDocument(fs)

(***************************************************************************)
(* C25.                                                                    *)
(***************************************************************************)
Distinct(texts) == \A i, j \in 1..Len(texts) : texts[i] = texts[j] => i = j

\* C25: for a task that is not blank and max_steps above 0, decompose_task
\* returns between 2 and max_steps strings, none empty, no two equal, none
\* an error string.
C25_DecomposeReturnsSteps ==
  (/\ call.op = "decompose_task"
   /\ NormalizeSpaces(call.task) # <<>>
   /\ call.max_steps > 0) =>
    /\ Len(result.steps) >= 2
    /\ Len(result.steps) <= call.max_steps
    /\ Distinct(result.steps)
    /\ \A i \in 1..Len(result.steps) :
         result.steps[i] # <<>> /\ ~StartsWithError(result.steps[i])

(***************************************************************************)
(* C26.                                                                    *)
(***************************************************************************)
\* invocation c is a track_progress that does not force completion
Unforced(c) ==
  c.op = "track_progress" /\ ~c.complete_plan /\ c.percent_complete # JInt(100)

\* after is what track_progress makes of before when it does not force
\* completion and is given percent_complete
Tracked(before, after, percent_complete) ==
  /\ after.steps = before.steps
  /\ after.subgoals = before.subgoals
  /\ after.status
       = IF before.steps # <<>> /\ Every(StatusesOf(before.steps), COMPLETED)
         THEN COMPLETED
         ELSE ACTIVE
  /\ percent_complete # JNull => after.percent_complete = percent_complete
  /\ percent_complete = JNull =>
       /\ IsInt(after.percent_complete)
       /\ Distance(100 * HowMany(StatusesOf(before.steps), COMPLETED),
                   IntOf(after.percent_complete) * Len(before.steps)) * 2
            <= Len(before.steps)

\* C26: a successful track_progress without complete_plan and with a
\* percent_complete other than 100 leaves status completed when all steps
\* were completed already and active otherwise; a percent_complete that was
\* given becomes the percentage of the state as it is; when none was given
\* the percentage is the one of the step ratio.
C26_TrackProgressUnforced ==
  [][(Unforced(call') /\ Succeeded') =>
       /\ Tracked(StateAt(fs, now'), mem'.val, call'.percent_complete)
       /\ IsPlanDocument(fs') => fs'.content.block = JsonOfState(mem'.val)]_vars

\* 50 was given on a plan with no step completed, and 50 it is
C26_Witness ==
  /\ Unforced(call)
  /\ call.percent_complete = JInt(50)
  /\ Succeeded
  /\ mem.val.percent_complete = JInt(50)
  /\ mem.val.steps # <<>>
  /\ HowMany(StatusesOf(mem.val.steps), COMPLETED) = 0
  /\ mem.val.status = ACTIVE

(***************************************************************************)
(* C27.                                                                    *)
(***************************************************************************)
\* invocation c recomputes the percentage from the steps
Recomputes(c) == c.op = "update_plan" \/ (c.op = "reflect_on_plan" /\ ~c.finalize)

\* the percentage of state is the one of its step ratio: 0 without steps
StepDerived(state) ==
  /\ state.percent_complete.t = "int"
  /\ state.steps = <<>> => state.percent_complete.n = 0
  /\ 2 * Distance(100 * HowMany(StatusesOf(state.steps), COMPLETED),
                  state.percent_complete.n * Len(state.steps))
       <= Len(state.steps)

\* the last progress entry carries a percentage, given to track_progress
LastGiven(state) == state.progress_log[Len(state.progress_log)].percent_complete

\* C27: after a successful update_plan, and after a successful
\* reflect_on_plan without finalize, the percentage of the state is the one
\* of the step ratio, whatever percentage an earlier track_progress had set.
C27_StepRatioOverwritesGivenPercent ==
  [][(Recomputes(call') /\ Succeeded') =>
       /\ StepDerived(mem'.val)
       /\ IsPlanDocument(fs') => fs'.content.block = JsonOfState(mem'.val)]_vars

\* track_progress had set 50 on a plan with no step completed; the
\* reflection that followed put 0 in its place
C27_Witness ==
  /\ call.op = "reflect_on_plan"
  /\ ~call.finalize
  /\ Succeeded
  /\ LastGiven(mem.val) = JInt(50)
  /\ HowMany(StatusesOf(mem.val.steps), COMPLETED) = 0
  /\ mem.val.percent_complete = JInt(0)

(***************************************************************************)
(* C28.                                                                    *)
(***************************************************************************)
\* invocation c takes the force-complete branch
Forces(c) ==
  \/ c.op = "track_progress" /\ (c.complete_plan \/ c.percent_complete = JInt(100))
  \/ c.op = "reflect_on_plan" /\ c.finalize

\* invocation c asks for the status of step i to be set
Asks(c, i) == c.op = "update_plan" /\ c.step_number = i

\* the transitions of the status of step i that the state machine of a step
\* has, under invocation c
Transition(from, to, c, i) ==
  \/ to = from
  \/ Asks(c, i) /\ from = PENDING /\ to = IN_PROGRESS
  \/ Asks(c, i) /\ from = IN_PROGRESS /\ to = COMPLETED
  \/ Asks(c, i) /\ to = BLOCKED
  \/ Asks(c, i) /\ from = BLOCKED
  \/ /\ c.op = "update_plan"
     /\ c.step_number # i
     /\ c.status = IN_PROGRESS
     /\ from = IN_PROGRESS
     /\ to = PENDING
  \/ Forces(c) /\ to = COMPLETED

StepsMove(before, after, c) ==
  /\ Len(after) = Len(before)
  /\ \A i \in 1..Len(before) : Transition(before[i].status, after[i].status, c, i)

\* C28: under update_plan, set_subgoals, track_progress and reflect_on_plan
\* the status of a step changes only from pending to in_progress, from
\* in_progress to completed, from anything to blocked and from blocked to
\* anything when update_plan asks so for that step, from in_progress to
\* pending when update_plan puts another step in progress, and from
\* anything to completed when the plan is force-completed.
C28_StepTransitions ==
  [][(call'.op \in Mutators /\ Succeeded') =>
       StepsMove(StateAt(fs, now').steps, mem'.val.steps, call')]_vars

(***************************************************************************)
(* C29.                                                                    *)
(***************************************************************************)
\* C29: once the document holds a plan of status completed, no successful
\* update_plan, set_subgoals, track_progress or reflect_on_plan on it
\* results in a status other than completed.
C29_CompletedIsTerminal ==
  [][(/\ call'.op \in Mutators
      /\ Succeeded'
      /\ StateAt(fs, now').status = COMPLETED) =>
       mem'.val.status = COMPLETED]_vars

(***************************************************************************)
(* C30.                                                                    *)
(***************************************************************************)
\* after is before with one entry more: message, without a percentage
Noted(before, after, message) ==
  /\ Len(after) = Len(before) + 1
  /\ SubSeq(after, 1, Len(before)) = before
  /\ after[Len(after)].message = message
  /\ after[Len(after)].percent_complete = JNull

\* C30: a successful update_plan with a note that is not blank appends
\* exactly one progress entry, whose message is the trimmed note and whose
\* percent_complete is null; with an empty or blank note it leaves the
\* progress log as it was.
C30_NoteIsLogged ==
  [][(call'.op = "update_plan" /\ Succeeded') =>
       /\ Strip(call'.note) # <<>> =>
            Noted(StateAt(fs, now').progress_log, mem'.val.progress_log, Strip(call'.note))
       /\ Strip(call'.note) = <<>> =>
            mem'.val.progress_log = StateAt(fs, now').progress_log
       /\ IsPlanDocument(fs') /\ fs'.content.block = JsonOfState(mem'.val)]_vars

\* the note "note " was logged as "note" after the entry of the creation
C30_Witness ==
  /\ call.op = "update_plan"
  /\ call.note = <<"note", SP>>
  /\ Succeeded
  /\ Len(mem.val.progress_log) = 2
  /\ mem.val.progress_log[2].message = <<"note">>
  /\ mem.val.progress_log[2].percent_complete = JNull

(***************************************************************************)
(* C31.                                                                    *)
(***************************************************************************)
\* every entry of a log has a message and a percent that is null or 0..100
EntriesInRange(entries) ==
  \A i \in 1..Len(entries) :
    /\ entries[i].message # <<>>
    /\ PercentInRange(entries[i].percent_complete)

\* the same of the progress_log of a document's block
EntriesInRangeIn(f) ==
  \A i \in 1..Len(f.content.block.o.progress_log.l) :
    /\ f.content.block.o.progress_log.l[i].o.message # JStr(<<>>)
    /\ PercentInRange(f.content.block.o.progress_log.l[i].o.percent_complete)

\* C31: in every state an operation has loaded and holds, and in every
\* document an operation has written, every progress entry has a non-empty
\* message and a percent_complete that is null or an integer from 0 to 100.
C31_ProgressEntriesInRange ==
  /\ mem.has => EntriesInRange(mem.val.progress_log)
  /\ (IsPlanDocument(fs) /\ InSeq("write", io)) => EntriesInRangeIn(fs)

(***************************************************************************)
(* C32.                                                                    *)
(***************************************************************************)
\* the description and the status a raw entry asks for, trimmed
RawDescription(raw) ==
  IF raw.t = "obj" THEN Strip(PyStr(Get(raw, "description", JStr(<<>>)))) ELSE Strip(PyStr(raw))

RawStatus(raw) ==
  IF raw.t = "obj" THEN Strip(PyStr(Get(raw, "status", JStr(PENDING)))) ELSE PENDING

\* the positions of the raw entries that have a description
Surviving(raws) == {i \in 1..Len(raws) : RawDescription(raws[i]) # <<>>}

\* the position of the k-th of them
Survivor(raws, k) ==
  CHOOSE i \in Surviving(raws) : Cardinality({j \in Surviving(raws) : j <= i}) = k

\* items is what the coercion of raws is to be
CoercedFrom(raws, items) ==
  /\ Len(items) = Cardinality(Surviving(raws))
  /\ \A k \in 1..Len(items) :
       /\ items[k].id = k
       /\ items[k].description = RawDescription(raws[Survivor(raws, k)])
       /\ items[k].status
            = IF RawStatus(raws[Survivor(raws, k)]) \in VALID_STATUSES
              THEN RawStatus(raws[Survivor(raws, k)])
              ELSE PENDING

\* C32: _coerce_item_list of a list has one item for each entry whose
\* description is not empty after trimming, in the order of the entries and
\* numbered 1..N; a plain string gives a pending item, an object keeps its
\* description and its status, a status outside VALID_STATUSES becomes
\* pending; of a value that is not a list it is the empty list.
C32_CoerceItemList ==
  call.op = "_coerce_item_list" =>
    IF call.raw_items.t = "list"
    THEN CoercedFrom(call.raw_items.l, result.items)
    ELSE result.items = <<>>

\* a string, an entry with a blank description and an object with an unknown
\* status were coerced: two items, numbered 1 and 2, both pending
C32_Witness ==
  /\ call.op = "_coerce_item_list"
  /\ call.raw_items
       = JList(<<JStr(<<SP, "build", SP>>),
                 JObj([description |-> JStr(Blank), status |-> JStr(COMPLETED)]),
                 JObj([description |-> JStr(StepA), status |-> JStr(<<"later">>)])>>)
  /\ result.items = <<Item(1, StepB, PENDING), Item(2, StepA, PENDING)>>

(***************************************************************************)
(* C33.                                                                    *)
(***************************************************************************)
\* C33: from a plan made by create_plan, the status of the persisted
\* document, and of the state a successful operation holds, is completed
\* exactly when every step is completed.
C33_StatusNeverStale ==
  /\ IsPlanDocument(fs) =>
       (DocStatus(fs) = COMPLETED <=> Every(DocItemStatuses(fs, "steps"), COMPLETED))
  /\ (Succeeded /\ mem.has) =>
       (mem.val.status = COMPLETED <=> Every(StatusesOf(mem.val.steps), COMPLETED))

\* a reflection that does not finalize was recorded on a plan whose steps are
\* all completed: the status, which it does not recompute, is completed
C33_Witness ==
  /\ call.op = "reflect_on_plan"
  /\ ~call.finalize
  /\ Succeeded
  /\ IsPlanDocument(fs)
  /\ DocStatus(fs) = COMPLETED
  /\ DocItemStatuses(fs, "steps") = <<COMPLETED, COMPLETED>>

(***************************************************************************)
(* C34.                                                                    *)
(***************************************************************************)
\* the invocation returned the error of a cleanup asked of a plan that is
\* not completed
CleanupRefused(res) ==
  res.kind = "return" /\ res.msg = Err("cleanup_plan_file requires a completed plan")

\* C34: when track_progress or reflect_on_plan is asked to clean up and the
\* resulting status is not completed, a call whose write went through
\* returns the cleanup error, and whenever that error is returned the
\* document holds the state of the call: the new progress entry or
\* reflection, the recomputed status and percentage and the new updated_at;
\* it is not the document of before the call.
C34_CleanupErrorAfterPersisting ==
  [][/\ (CleanupAsked(call') /\ mem'.has /\ mem'.val.status # COMPLETED
          /\ InSeq("write", io')) =>
          CleanupRefused(result')
     /\ (CleanupAsked(call') /\ CleanupRefused(result')) =>
          /\ IsPlanDocument(fs')
          /\ fs' # fs
          /\ fs'.content.block = JsonOfState(mem'.val)
          /\ StateAt(fs', now') = mem'.val
          /\ mem'.val.status = StatusOfSteps(StateAt(fs, now').steps)
          /\ mem'.val.updated_at = _now_utc_iso(now')
          /\ call'.op = "track_progress" =>
               /\ Grown(StateAt(fs, now'), mem'.val, "progress_log")
               /\ LastGiven(mem'.val) = call'.percent_complete
               /\ call'.percent_complete = JNull => StepDerived(mem'.val)
               /\ call'.percent_complete # JNull =>
                    mem'.val.percent_complete = call'.percent_complete
          /\ call'.op = "reflect_on_plan" =>
               /\ Grown(StateAt(fs, now'), mem'.val, "reflections")
               /\ StepDerived(mem'.val)]_vars

\* track_progress asked to clean up an active plan: the cleanup error, and
\* the entry with its 50 percent is in the document
C34_Witness ==
  /\ call.op = "track_progress"
  /\ call.cleanup_plan_file
  /\ CleanupRefused(result)
  /\ IsPlanDocument(fs)
  /\ DocStatus(fs) = ACTIVE
  /\ fs.content.block = JsonOfState(mem.val)
  /\ LastGiven(mem.val) = JInt(50)
  /\ mem.val.percent_complete = JInt(50)

(***************************************************************************)
(* C35.                                                                    *)
(***************************************************************************)
\* the ids and the descriptions of items, in order
Frame(items) == [i \in 1..Len(items) |-> [id |-> items[i].id, description |-> items[i].description]]

\* after is before but for the status of the item at position k
OnlyTargetMoved(before, after, k, status) ==
  /\ Len(after) = Len(before)
  /\ \A i \in 1..Len(before) :
       IF i = k
       THEN after[i] = [before[i] EXCEPT !.status = status]
       ELSE after[i] = before[i]

\* C35: update_plan, set_subgoals, track_progress and reflect_on_plan leave
\* the number, the order and the descriptions of the steps as they were: in
\* the document, whenever the call leaves a document that loads, and in the
\* state a successful call holds and writes; and a successful update_plan
\* with a status other than in_progress changes the status of its target
\* step and nothing else of the steps.
C35_StepsAreFramed ==
  [][(call'.op \in Mutators /\ Loadable(fs, now')) =>
       /\ Loadable(fs', now') =>
            Frame(StateAt(fs', now').steps) = Frame(StateAt(fs, now').steps)
       /\ Succeeded' =>
            /\ Frame(mem'.val.steps) = Frame(StateAt(fs, now').steps)
            /\ IsPlanDocument(fs') => fs'.content.block = JsonOfState(mem'.val)
       /\ (Succeeded' /\ call'.op = "update_plan" /\ call'.status # IN_PROGRESS) =>
            OnlyTargetMoved(StateAt(fs, now').steps, mem'.val.steps,
                            call'.step_number, call'.status)]_vars

\* step 2 of two was completed while step 1 was in progress, and step 1
\* still is
C35_Witness ==
  /\ call.op = "update_plan"
  /\ call.step_number = 2
  /\ call.status = COMPLETED
  /\ Succeeded
  /\ IsPlanDocument(fs)
  /\ Len(mem.val.steps) >= 2
  /\ mem.val.steps[1].status = IN_PROGRESS
  /\ mem.val.steps[2].status = COMPLETED

(***************************************************************************)
(* C36.                                                                    *)
(***************************************************************************)
\* what set_subgoals is to leave alone
BesidesSubgoals(state) ==
  [steps |-> state.steps, status |-> state.status,
   percent_complete |-> state.percent_complete, progress_log |-> state.progress_log,
   reflections |-> state.reflections]

\* C36: after a successful set_subgoals the steps, the status, the
\* percentage, the progress log and the reflections of the state written to
\* the document are those the call loaded from it.
C36_SetSubgoalsFrame ==
  [][(call'.op = "set_subgoals" /\ Succeeded') =>
       /\ IsPlanDocument(fs')
       /\ fs'.content.block = JsonOfState(mem'.val)
       /\ BesidesSubgoals(mem'.val) = BesidesSubgoals(StateAt(fs, now'))
       /\ BesidesSubgoals(StateAt(fs', now')) = BesidesSubgoals(StateAt(fs, now'))]_vars

\* a subgoal was added to a completed plan: the status is completed and the
\* percentage 100 as before, and the new subgoal is pending
C36_Witness ==
  /\ call.op = "set_subgoals"
  /\ Succeeded
  /\ IsPlanDocument(fs)
  /\ DocStatus(fs) = COMPLETED
  /\ fs.content.block.o.percent_complete = JInt(100)
  /\ Every(DocItemStatuses(fs, "steps"), COMPLETED)
  /\ InSeq(PENDING, DocItemStatuses(fs, "subgoals"))

(***************************************************************************)
(* C37.                                                                    *)
(***************************************************************************)
\* invocation c is one of those that are to leave the subgoals alone
LeavesSubgoals(c) ==
  \/ c.op = "update_plan"
  \/ c.op \in {"track_progress", "reflect_on_plan"} /\ ~Forces(c)

\* every subgoal of after that before knows has the status it has there
StatusesCarried(before, after) ==
  \A i \in 1..Len(after), j \in 1..Len(before) :
    before[j].description = after[i].description => before[j].status = after[i].status

\* C37: a successful update_plan, and a successful track_progress or
\* reflect_on_plan that does not force completion, leave the subgoals as
\* they were; a successful set_subgoals leaves every subgoal it keeps with
\* its status; and from a plan made by create_plan every subgoal of the
\* document is pending or completed.
C37_SubgoalStatusOnlyForced ==
  [][/\ (LeavesSubgoals(call') /\ Succeeded') =>
          /\ mem'.val.subgoals = StateAt(fs, now').subgoals
          /\ IsPlanDocument(fs') => fs'.content.block = JsonOfState(mem'.val)
     /\ (call'.op = "set_subgoals" /\ Succeeded') =>
          StatusesCarried(StateAt(fs, now').subgoals, mem'.val.subgoals)
     /\ IsPlanDocument(fs') =>
          \A i \in 1..Len(DocItemStatuses(fs', "subgoals")) :
            DocItemStatuses(fs', "subgoals")[i] \in {PENDING, COMPLETED}]_vars

\* step 1 of a force-completed plan was set blocked by update_plan: its
\* subgoal is completed as before
C37_Witness ==
  /\ call.op = "update_plan"
  /\ call.status = BLOCKED
  /\ call.step_number = 1
  /\ Succeeded
  /\ IsPlanDocument(fs)
  /\ DocItemStatuses(fs, "steps")[1] = BLOCKED
  /\ DocItemStatuses(fs, "subgoals") = <<COMPLETED>>

(***************************************************************************)
(* C38.                                                                    *)
(***************************************************************************)
\* the calls of the invocation on the store end with a write and the unlink
EndsWriteUnlink(calls) ==
  /\ Len(calls) >= 2
  /\ calls[Len(calls) - 1] = "write"
  /\ calls[Len(calls)] = "unlink"

\* C38: a track_progress or reflect_on_plan whose write fails returns the
\* write error, attempts no unlink and leaves a file in place; and a file
\* goes away only in a call that wrote a completed state and unlinked the
\* file right after.
C38_NoCleanupAfterFailedWrite ==
  [][/\ (call'.op \in {"track_progress", "reflect_on_plan"}
          /\ InSeq("write_failed", io')) =>
          /\ result'.kind = "return"
          /\ result'.msg = Err("Unable to write plan file")
          /\ ~InSeq("unlink", io')
          /\ ~InSeq("unlink_failed", io')
          /\ fs'.kind = "file"
     /\ (fs.kind = "file" /\ fs'.kind = "absent") =>
          /\ CleanupAsked(call')
          /\ ~InSeq("write_failed", io')
          /\ EndsWriteUnlink(io')
          /\ mem'.val.status = COMPLETED
          /\ Succeeded']_vars

\* track_progress asked to complete and clean up, its write failed midway:
\* the write error, and the file, cut short, is still there
C38_Witness ==
  /\ call.op = "track_progress"
  /\ call.complete_plan
  /\ call.cleanup_plan_file
  /\ InSeq("write_failed", io)
  /\ result.kind = "return"
  /\ result.msg = Err("Unable to write plan file")
  /\ fs = File(Truncated)
  /\ mem.has
  /\ mem.val.status = COMPLETED

(***************************************************************************)
(* C39.                                                                    *)
(***************************************************************************)
\* the document holds a plan with every step completed, status completed
\* and 100 percent
Finished(f) ==
  /\ IsPlanDocument(f)
  /\ Remaining(f) = {}
  /\ DocStatus(f) = COMPLETED
  /\ f.content.block.o.percent_complete = JInt(100)

\* C39: each successful update_plan(k, completed) on a step that was not
\* completed leaves one step fewer to complete and none that was completed
\* to complete again, and when none is left the status is completed and the
\* percentage 100; and a caller that keeps completing the steps that are
\* left reaches that state, as long as the document is not lost to a failed
\* write: from a plan of N steps, after at most N successful calls.
C39_CompletionIsReached ==
  /\ [][(call'.op = "update_plan" /\ Succeeded') =>
          /\ Remaining(fs') = Remaining(fs) \ {call'.step_number}
          /\ Cardinality(Remaining(fs')) = Cardinality(Remaining(fs)) - 1
          /\ Cardinality(Remaining(fs)) <= Len(mem'.val.steps)
          /\ Remaining(fs') = {} => Finished(fs')]_vars
  /\ [](Remaining(fs) # {} => <>(Finished(fs) \/ ~IsPlanDocument(fs)))

\* the last of three steps was completed on a plan that track_progress had
\* put at 50 percent
C39_Witness ==
  /\ call.op = "update_plan"
  /\ Succeeded
  /\ Finished(fs)
  /\ Len(mem.val.steps) = 3
  /\ LastGiven(mem.val) = JInt(50)

====
